---- MODULE Spec2Model ----
(***************************************************************************)
(* Model of go-metar's decoding / formatting engine (package metar).      *)
(*                                                                         *)
(* The formatter is a set of pure functions.  Each one is an operator     *)
(* computed the way the Go code computes it; the state machine calls one  *)
(* function per step on an input drawn from a bounded set and records     *)
(* the call in fn / input / output; sb is the content of the              *)
(* strings.Builder that Decode hands to the box renderer; http is the     *)
(* sequence of the URLs that the call has requested with httpClient.Get;  *)
(* waiting names what the program is blocked in ("Get" inside            *)
(* httpClient.Get, "Body" inside the read of the response body by the     *)
(* JSON decoder) and is "" when it is blocked in nothing: a call that     *)
(* issues a request takes one step up to the request, one step from the   *)
(* arrival of the status line to the read of the body, and one step from  *)
(* the arrival of the body on.                                             *)
(*                                                                         *)
(* Conventions                                                             *)
(*  - a Go string is a TLA+ string.  TLA+ strings are ASCII, so the       *)
(*    non-ASCII runes the formatter emits are written as their escapes    *)
(*    (DegreeSign, MiddleDot, the Border runes); RuneCount counts an      *)
(*    escape as one rune.                                                 *)
(*  - a Go float64 is an integer number of hundredths (950 is 9.5).       *)
(*  - a Go `any` is a record [type, str, num] (see AnyString, AnyFloat,   *)
(*    AnyNil, AnyBool).                                                    *)
(*  - lipgloss colour styles (stationStyle, labelStyle, valueStyle, the   *)
(*    flight styles) render their argument unchanged, as lipgloss does    *)
(*    when the output is not a colour terminal.                           *)
(***************************************************************************)
EXTENDS Integers, Sequences, FiniteSets, TLC

VARIABLES fn, input, output, sb, http, waiting

vars == <<fn, input, output, sb, http, waiting>>

-----------------------------------------------------------------------------
(* Bounds of the explored inputs *)

MaxSpeed == 2
MaxGust == 2
MaxVisibility == 11
MaxLayers == 2
MaxGroupLen == 4
MaxGroups == 2
MaxPeriods == 3
MaxIcaoLen == 5
MaxCodes == 2
MaxRecords == 2

-----------------------------------------------------------------------------
(* Runes outside ASCII *)

DegreeSign == "\\u00b0"
MiddleDot == "\\u00b7"

-----------------------------------------------------------------------------
(* Go values of interface type `any` *)

AnyString(s) == [type |-> "string", str |-> s, num |-> 0]
AnyFloat(x) == [type |-> "float64", str |-> "", num |-> x]
AnyNil == [type |-> "nil", str |-> "", num |-> 0]
AnyBool == [type |-> "bool", str |-> "", num |-> 0]

-----------------------------------------------------------------------------
(* fmt.Sprintf verbs and the strings package *)

Digits == <<"0", "1", "2", "3", "4", "5", "6", "7", "8", "9">>

RECURSIVE FmtNat(_)
FmtNat(n) == IF n < 10 THEN Digits[n + 1]
             ELSE FmtNat(n \div 10) \o Digits[(n % 10) + 1]

\* %d
FmtInt(n) == IF n < 0 THEN "-" \o FmtNat(-n) ELSE FmtNat(n)

Abs(n) == IF n < 0 THEN -n ELSE n

\* nearest integer to |num| / den, ties to the even neighbour (strconv)
RoundHalfEven(num, den) ==
    LET a == Abs(num)
        q == a \div den
        r == a % den
    IN  IF 2 * r < den THEN q
        ELSE IF 2 * r > den THEN q + 1
        ELSE IF q % 2 = 0 THEN q ELSE q + 1

\* %.0f of the float64 x (in hundredths); the sign is printed even when
\* the magnitude rounds to 0
FmtFloat0(x) ==
    (IF x < 0 THEN "-" ELSE "") \o FmtNat(RoundHalfEven(x, 100))

\* strings.HasSuffix
HasSuffix(s, suffix) ==
    /\ Len(s) >= Len(suffix)
    /\ SubSeq(s, Len(s) - Len(suffix) + 1, Len(s)) = suffix

\* strings.HasPrefix
HasPrefix(s, prefix) ==
    /\ Len(s) >= Len(prefix)
    /\ SubSeq(s, 1, Len(prefix)) = prefix

\* strings.Contains
Contains(s, sub) ==
    \E i \in 1..(Len(s) - Len(sub) + 1) : SubSeq(s, i, i + Len(sub) - 1) = sub

-----------------------------------------------------------------------------
(* formatWind *)

\* variant of formatWind_switch: the VRB token compared without regard to case
formatWind_VRBAnyCase(dir, speed) ==
    IF dir.type = "string"
    THEN IF dir.str \in {"VRB", "vrb"}
         THEN "Variable at " \o FmtInt(speed) \o " kt"
         ELSE dir.str \o DegreeSign \o " at " \o FmtInt(speed) \o " kt"
    ELSE IF dir.type = "float64"
    THEN FmtFloat0(dir.num) \o DegreeSign \o " at " \o FmtInt(speed) \o " kt"
    ELSE FmtInt(speed) \o " kt"

\* the switch on the dynamic type of dir
formatWind_switch(dir, speed) ==
    IF dir.type = "string"
    THEN IF dir.str = "VRB"
         THEN "Variable at " \o FmtInt(speed) \o " kt"
         ELSE dir.str \o DegreeSign \o " at " \o FmtInt(speed) \o " kt"
    ELSE IF dir.type = "float64"
    THEN FmtFloat0(dir.num) \o DegreeSign \o " at " \o FmtInt(speed) \o " kt"
    ELSE FmtInt(speed) \o " kt"

\* variant of formatWind_gust: gust >= 0 in place of gust > 0
formatWind_GustFromZero(gust) ==
    IF gust >= 0 THEN ", gusting " \o FmtInt(gust) \o " kt" ELSE ""

\* the gust suffix
formatWind_gust(gust) ==
    IF gust > 0 THEN ", gusting " \o FmtInt(gust) \o " kt" ELSE ""

\* variant of formatWind: calm only when no gust is reported
formatWind_CalmWithoutGust(dir, speed, gust) ==
    IF speed = 0 /\ gust <= 0 THEN "Calm"
    ELSE formatWind_switch(dir, speed) \o formatWind_gust(gust)

formatWind(dir, speed, gust) ==
    IF speed = 0 THEN "Calm"
    ELSE formatWind_switch(dir, speed) \o formatWind_gust(gust)

-----------------------------------------------------------------------------
(* formatVisibility *)

\* variant of formatVisibility: only the text "10+" is accepted
formatVisibility_ParseText(vis) ==
    IF vis.type = "string"
    THEN IF vis.str = "10+" THEN "10+ SM" ELSE "Unknown"
    ELSE IF vis.type # "float64" THEN "Unknown"
    ELSE IF vis.num >= 1000 THEN "10+ SM"
    ELSE FmtFloat0(vis.num) \o " SM"

formatVisibility(vis) ==
    IF vis.type = "string" THEN vis.str \o " SM"
    ELSE IF vis.type # "float64" THEN "Unknown"
    ELSE IF vis.num >= 1000 THEN "10+ SM"
    ELSE FmtFloat0(vis.num) \o " SM"

-----------------------------------------------------------------------------
(* expandCloudCover, formatClouds *)

coverMap ==
    [c \in {"SKC", "CLR", "FEW", "SCT", "BKN", "OVC", "OVX"} |->
        CASE c = "SKC" -> "Clear"
          [] c = "CLR" -> "Clear"
          [] c = "FEW" -> "Few"
          [] c = "SCT" -> "Scattered"
          [] c = "BKN" -> "Broken"
          [] c = "OVC" -> "Overcast"
          [] c = "OVX" -> "Obscured"]

\* variant of expandCloudCover: a fixed text for a code not in the table
expandCloudCover_DefaultUnknown(cover) ==
    IF cover \in DOMAIN coverMap THEN coverMap[cover] ELSE "Unknown"

expandCloudCover(cover) ==
    IF cover \in DOMAIN coverMap THEN coverMap[cover] ELSE cover

\* strings.Split: the pieces of s between the occurrences of sep
RECURSIVE SplitOn(_, _)
SplitOn(s, sep) ==
    LET hits == { i \in 1..(Len(s) - Len(sep) + 1) :
                      SubSeq(s, i, i + Len(sep) - 1) = sep }
    IN  IF hits = {} THEN <<s>>
        ELSE LET i == CHOOSE h \in hits : \A k \in hits : h <= k
             IN  <<SubSeq(s, 1, i - 1)>>
                     \o SplitOn(SubSeq(s, i + Len(sep), Len(s)), sep)

\* strings.Join
RECURSIVE Join(_, _)
Join(elems, sep) ==
    IF Len(elems) = 0 THEN ""
    ELSE IF Len(elems) = 1 THEN elems[1]
    ELSE elems[1] \o sep \o Join(Tail(elems), sep)

\* variant of formatClouds_layer: Base >= 0 in place of Base > 0
formatClouds_BaseFromZero(c) ==
    IF c.Base >= 0
    THEN expandCloudCover(c.Cover) \o " @ " \o FmtInt(c.Base) \o " ft"
    ELSE expandCloudCover(c.Cover)

\* one iteration of the loop over the layers
formatClouds_layer(c) ==
    IF c.Base > 0
    THEN expandCloudCover(c.Cover) \o " @ " \o FmtInt(c.Base) \o " ft"
    ELSE expandCloudCover(c.Cover)

formatClouds(clouds) ==
    Join([i \in 1..Len(clouds) |-> formatClouds_layer(clouds[i])], ", ")

-----------------------------------------------------------------------------
(* decodeWeatherGroup, decodeWeather *)

WeatherCodes ==
    {"-", "+", "VC",
     "MI", "PR", "BC", "DR", "BL", "SH", "TS", "FZ",
     "DZ", "RA", "SN", "SG", "IC", "PL", "GR", "GS", "UP",
     "BR", "FG", "FU", "VA", "DU", "SA", "HZ", "PY",
     "PO", "SQ", "FC", "SS", "DS"}

weatherMap ==
    [c \in WeatherCodes |->
        CASE c = "-" -> "Light"
          [] c = "+" -> "Heavy"
          [] c = "VC" -> "Vicinity"
          [] c = "MI" -> "Shallow"
          [] c = "PR" -> "Partial"
          [] c = "BC" -> "Patches"
          [] c = "DR" -> "Drifting"
          [] c = "BL" -> "Blowing"
          [] c = "SH" -> "Showers"
          [] c = "TS" -> "Thunderstorm"
          [] c = "FZ" -> "Freezing"
          [] c = "DZ" -> "Drizzle"
          [] c = "RA" -> "Rain"
          [] c = "SN" -> "Snow"
          [] c = "SG" -> "Snow Grains"
          [] c = "IC" -> "Ice Crystals"
          [] c = "PL" -> "Ice Pellets"
          [] c = "GR" -> "Hail"
          [] c = "GS" -> "Small Hail"
          [] c = "UP" -> "Unknown Precip"
          [] c = "BR" -> "Mist"
          [] c = "FG" -> "Fog"
          [] c = "FU" -> "Smoke"
          [] c = "VA" -> "Volcanic Ash"
          [] c = "DU" -> "Dust"
          [] c = "SA" -> "Sand"
          [] c = "HZ" -> "Haze"
          [] c = "PY" -> "Spray"
          [] c = "PO" -> "Dust Whirls"
          [] c = "SQ" -> "Squalls"
          [] c = "FC" -> "Funnel Cloud"
          [] c = "SS" -> "Sandstorm"
          [] c = "DS" -> "Duststorm"]

\* s[from:] of Go, from counted from 0
SliceFrom(s, from) == SubSeq(s, from + 1, Len(s))

\* the runes of a string: an escape is one rune
RECURSIVE Runes(_)
Runes(s) ==
    IF s = "" THEN <<>>
    ELSE IF Len(s) >= 6 /\ SubSeq(s, 1, 2) = "\\u"
    THEN <<SubSeq(s, 1, 6)>> \o Runes(SliceFrom(s, 6))
    ELSE <<SubSeq(s, 1, 1)>> \o Runes(SliceFrom(s, 1))

HexDigits == "0123456789abcdef"
HexValue(ch) == CHOOSE v \in 0..15 : SubSeq(HexDigits, v + 1, v + 1) = ch

\* the code point of an escaped rune
CodePoint(r) ==
    4096 * HexValue(SubSeq(r, 3, 3)) + 256 * HexValue(SubSeq(r, 4, 4))
        + 16 * HexValue(SubSeq(r, 5, 5)) + HexValue(SubSeq(r, 6, 6))

\* the number of bytes of the UTF-8 encoding of a rune
Utf8Len(r) ==
    IF Len(r) = 1 THEN 1
    ELSE IF CodePoint(r) < 128 THEN 1
    ELSE IF CodePoint(r) < 2048 THEN 2
    ELSE 3

\* A Go string as its bytes.  A byte of ASCII is the character itself (an
\* escape below U+0080 included); a byte of the UTF-8 encoding of a rune from
\* U+0080 on is written "\\x" and two hexadecimal digits.

\* the UTF-8 encoding of a rune
Utf8Bytes(r) ==
    LET HexByte(b) ==
            "\\x" \o SubSeq(HexDigits, b \div 16 + 1, b \div 16 + 1)
                   \o SubSeq(HexDigits, (b % 16) + 1, (b % 16) + 1)
    IN  IF Utf8Len(r) = 1 THEN <<r>>
        ELSE IF Utf8Len(r) = 2
        THEN <<HexByte(192 + CodePoint(r) \div 64),
               HexByte(128 + (CodePoint(r) % 64))>>
        ELSE <<HexByte(224 + CodePoint(r) \div 4096),
               HexByte(128 + ((CodePoint(r) \div 64) % 64)),
               HexByte(128 + (CodePoint(r) % 64))>>

\* []byte(s)
RECURSIVE Bytes(_)
Bytes(s) ==
    LET rs == Runes(s)
    IN  IF rs = <<>> THEN <<>>
        ELSE Utf8Bytes(rs[1]) \o Bytes(SliceFrom(s, Len(rs[1])))

\* the string of two bytes: the rune they encode when they are the UTF-8
\* encoding of one (a rune below U+0800), and otherwise the two bytes as
\* they are
StringOf2(b1, b2) ==
    LET IsHexByte(b) == Len(b) = 4 /\ SubSeq(b, 1, 2) = "\\x"
        ByteValue(b) == 16 * HexValue(SubSeq(b, 3, 3)) + HexValue(SubSeq(b, 4, 4))
        HexDigit(v) == SubSeq(HexDigits, v + 1, v + 1)
        EscapeOf(cp) ==
            "\\u0" \o HexDigit(cp \div 256) \o HexDigit((cp \div 16) % 16)
                    \o HexDigit(cp % 16)
    IN  IF /\ IsHexByte(b1) /\ IsHexByte(b2)
           /\ ByteValue(b1) \in 194..223
           /\ ByteValue(b2) \in 128..191
        THEN EscapeOf(64 * (ByteValue(b1) - 192) + (ByteValue(b2) - 128))
        ELSE b1 \o b2

\* the loop over the chunks of 2 bytes and the leftover byte; remaining is
\* the string as its bytes
RECURSIVE decodeWeatherGroup_chunks(_)
decodeWeatherGroup_chunks(remaining) ==
    IF Len(remaining) >= 2
    THEN LET code == StringOf2(remaining[1], remaining[2])
         IN  <<IF code \in DOMAIN weatherMap THEN weatherMap[code] ELSE code>>
                 \o decodeWeatherGroup_chunks(SubSeq(remaining, 3, Len(remaining)))
    ELSE IF Len(remaining) > 0 THEN <<remaining[1]>>
    ELSE <<>>

decodeWeatherGroup(group) ==
    IF group = "" THEN ""
    ELSE
    LET hasIntensity == SubSeq(group, 1, 1) \in {"-", "+"}
        parts1 == IF hasIntensity /\ SubSeq(group, 1, 1) \in DOMAIN weatherMap
                  THEN <<weatherMap[SubSeq(group, 1, 1)]>> ELSE <<>>
        remaining1 == IF hasIntensity THEN SliceFrom(group, 1) ELSE group
        hasVC == HasPrefix(remaining1, "VC")
        parts2 == IF hasVC THEN Append(parts1, weatherMap["VC"]) ELSE parts1
        remaining2 == IF hasVC THEN SliceFrom(remaining1, 2) ELSE remaining1
    IN  Join(parts2 \o decodeWeatherGroup_chunks(Bytes(remaining2)), " ")

\* the white space of Unicode outside ASCII that is written as an escape:
\* U+000B, U+0085, U+00A0, U+1680, U+2000 to U+200A, U+2028, U+2029, U+202F,
\* U+205F, U+3000
EscapedSpaces ==
    {"\\u000b", "\\u0085", "\\u00a0", "\\u1680",
     "\\u2000", "\\u2001", "\\u2002", "\\u2003", "\\u2004", "\\u2005",
     "\\u2006", "\\u2007", "\\u2008", "\\u2009", "\\u200a",
     "\\u2028", "\\u2029", "\\u202f", "\\u205f", "\\u3000"}

\* unicode.IsSpace (the asciiSpace table of strings.Fields on ASCII)
IsSpace(c) == c \in {" ", "\t", "\n", "\r", "\f"} \cup EscapedSpaces

\* the rune of s at position i: an escape is one rune
RuneAt(s, i) ==
    IF Len(s) >= i + 5 /\ SubSeq(s, i, i + 1) = "\\u" THEN SubSeq(s, i, i + 5)
    ELSE SubSeq(s, i, i)

\* strings.Fields: the maximal runs of runes that are not white space
RECURSIVE FieldsScan(_, _, _)
FieldsScan(s, i, field) ==
    LET done == IF field = "" THEN <<>> ELSE <<field>>
        c == RuneAt(s, i)
    IN  IF i > Len(s) THEN done
        ELSE IF IsSpace(c) THEN done \o FieldsScan(s, i + Len(c), "")
        ELSE FieldsScan(s, i + Len(c), field \o c)

Fields(s) == FieldsScan(s, 1, "")

\* variant of decodeWeather: strings.Split on " " in place of strings.Fields
decodeWeather_SplitOnSpace(wxString) ==
    IF wxString = "" THEN ""
    ELSE LET groups == SplitOn(wxString, " ")
         IN  Join([i \in 1..Len(groups) |-> decodeWeatherGroup(groups[i])], ", ")

decodeWeather(wxString) ==
    IF wxString = "" THEN ""
    ELSE LET groups == Fields(wxString)
         IN  Join([i \in 1..Len(groups) |-> decodeWeatherGroup(groups[i])], ", ")

-----------------------------------------------------------------------------
(* Decode *)

\* %02d for 0 <= n
FmtInt02(n) == IF n < 10 THEN "0" \o FmtNat(n) ELSE FmtNat(n)

\* Natural numbers beyond the machine word, for the 53-bit mantissas of
\* float64 arithmetic: a sequence of limbs, the least significant first.
LimbBase == 2 ^ 15

RECURSIVE BigFromNat(_)
BigFromNat(n) ==
    IF n = 0 THEN <<>> ELSE <<n % LimbBase>> \o BigFromNat(n \div LimbBase)

RECURSIVE BigMulLimb(_, _, _)
BigMulLimb(a, k, carry) ==
    IF a = <<>> THEN BigFromNat(carry)
    ELSE LET t == Head(a) * k + carry
         IN  <<t % LimbBase>> \o BigMulLimb(Tail(a), k, t \div LimbBase)

RECURSIVE BigAdd(_, _, _)
BigAdd(a, b, carry) ==
    IF a = <<>> /\ b = <<>> THEN BigFromNat(carry)
    ELSE LET t == (IF a = <<>> THEN 0 ELSE Head(a))
                      + (IF b = <<>> THEN 0 ELSE Head(b)) + carry
         IN  <<t % LimbBase>>
                 \o BigAdd(IF a = <<>> THEN <<>> ELSE Tail(a),
                           IF b = <<>> THEN <<>> ELSE Tail(b), t \div LimbBase)

RECURSIVE BigMul(_, _)
BigMul(a, b) ==
    IF b = <<>> THEN <<>>
    ELSE BigAdd(BigMulLimb(a, Head(b), 0), <<0>> \o BigMul(a, Tail(b)), 0)

RECURSIVE BigTrim(_)
BigTrim(a) ==
    IF a = <<>> THEN <<>>
    ELSE IF a[Len(a)] = 0 THEN BigTrim(SubSeq(a, 1, Len(a) - 1))
    ELSE a

\* -1, 0 or 1 as a is below, equal to or above b: the highest limb in which
\* they differ decides
BigCmp(a, b) ==
    LET x == BigTrim(a)
        y == BigTrim(b)
        differ == { i \in 1..Len(x) : Len(x) = Len(y) /\ x[i] # y[i] }
        top == CHOOSE i \in differ : \A j \in differ : j <= i
    IN  IF Len(x) < Len(y) THEN -1
        ELSE IF Len(x) > Len(y) THEN 1
        ELSE IF differ = {} THEN 0
        ELSE IF x[top] < y[top] THEN -1 ELSE 1

\* the number of bits of a
BigBitLen(a) ==
    LET x == BigTrim(a)
    IN  IF x = <<>> THEN 0
        ELSE 15 * (Len(x) - 1)
                 + Cardinality({ k \in 0..14 : 2 ^ k <= x[Len(x)] })

\* floor(a / 2^s): whole limbs are dropped, then each limb takes the low
\* bits of the next one
BigShiftRight(a, s) ==
    LET k == s % 15
        x == IF s \div 15 >= Len(a) THEN <<>>
             ELSE SubSeq(a, s \div 15 + 1, Len(a))
    IN  [i \in 1..Len(x) |->
            x[i] \div 2 ^ k
                + (IF i < Len(x) THEN (x[i + 1] % 2 ^ k) * 2 ^ (15 - k) ELSE 0)]

BigPow2(s) ==
    [i \in 1..(s \div 15 + 1) |-> IF i <= s \div 15 THEN 0 ELSE 2 ^ (s % 15)]

\* a / 2^s rounded to the nearest integer, ties to the even neighbour:
\* 2^(s-1) is added when the quotient is odd and 2^(s-1) - 1 when it is even
BigRoundShift(a, s) ==
    LET q == BigShiftRight(a, s)
        odd == q # <<>> /\ q[1] % 2 = 1
        ones == [i \in 1..((s - 1) \div 15 + 1) |->
                    IF i <= (s - 1) \div 15 THEN LimbBase - 1
                    ELSE 2 ^ ((s - 1) % 15) - 1]
    IN  BigShiftRight(BigAdd(a, IF odd THEN BigPow2(s - 1) ELSE ones, 0), s)

\* The constant 0.02953 is the float64 nearest to it, which is
\* 8511443007760048 * 2^-58 (a 53-bit mantissa, given by its limbs).
\* the sign of float64(n) * float64(0.02953) - n * 0.02953 for a whole
\* n >= 0: the product of the two mantissas is rounded to 53 bits, ties to
\* even, and compared with the exact n * 2953 / 100000
Float64ProductError(n) ==
    LET mantissa == <<26288, 513, 29811, 241>>
        exact == BigMul(BigFromNat(n), mantissa)
        s == BigBitLen(exact) - 53
        product == IF s <= 0 THEN exact
                   ELSE BigMul(BigRoundShift(exact, s), BigPow2(s))
    IN  BigCmp(BigMul(product, BigFromNat(100000)),
               BigMul(BigMul(BigFromNat(n), BigFromNat(2953)), BigPow2(58)))

\* altInHg := m.Altimeter * 0.02953 for m.Altimeter of a hundredths: the
\* exact product is whole + rem / 100000 hundredths, and the float64 product
\* lies within a rounding error of it.  side is the side of the exact
\* product the float64 lies on when the exact product is half-way between
\* two hundredths, which takes a whole number of hPa; everywhere else the
\* float64 is nearer to the exact product than to any half-way point, and
\* side is 0.
altInHg(a) ==
    LET x == Abs(a)
        low == (x % 100000) * 2953
        rem == low % 100000
    IN  [neg |-> a < 0,
         whole |-> (x \div 100000) * 2953 + low \div 100000,
         rem |-> rem,
         side |-> IF 2 * rem = 100000 THEN Float64ProductError(x \div 100)
                  ELSE 0]

\* %.2f of the float64 x: the nearest hundredth to the float64, which at a
\* half-way exact product is decided by the side the float64 lies on, and
\* by the even neighbour when the float64 is the half-way point itself
FmtFloat2(x) ==
    LET h == IF 2 * x.rem < 100000 THEN x.whole
             ELSE IF 2 * x.rem > 100000 THEN x.whole + 1
             ELSE IF x.side > 0 THEN x.whole + 1
             ELSE IF x.side < 0 THEN x.whole
             ELSE IF x.whole % 2 = 0 THEN x.whole ELSE x.whole + 1
    IN  (IF x.neg THEN "-" ELSE "") \o FmtNat(h \div 100) \o "."
            \o FmtInt02(h % 100)

RECURSIVE Spaces(_)
Spaces(n) == IF n <= 0 THEN "" ELSE " " \o Spaces(n - 1)

RECURSIVE CountEscapes(_)
CountEscapes(s) ==
    IF Len(s) < 6 THEN 0
    ELSE IF SubSeq(s, 1, 2) = "\\u" THEN 1 + CountEscapes(SliceFrom(s, 6))
    ELSE CountEscapes(SliceFrom(s, 1))

\* the number of runes of s: an escaped rune counts for one
RuneCount(s) == Len(s) - 5 * CountEscapes(s)

\* %-11s and %-9s: s padded with spaces on the right to the width
PadRight(s, width) == s \o Spaces(width - RuneCount(s))

MonthNames == <<"Jan", "Feb", "Mar", "Apr", "May", "Jun",
                "Jul", "Aug", "Sep", "Oct", "Nov", "Dec">>

\* time.Unix(sec, 0).UTC(): the civil date and time of day of an epoch >= 0
CivilTime(sec) ==
    LET days == sec \div 86400
        rest == sec % 86400
        z == days + 719468
        era == z \div 146097
        doe == z - era * 146097
        yoe == (doe - doe \div 1460 + doe \div 36524 - doe \div 146096) \div 365
        doy == doe - (365 * yoe + yoe \div 4 - yoe \div 100)
        mp == (5 * doy + 2) \div 153
        month == IF mp < 10 THEN mp + 3 ELSE mp - 9
    IN  [year |-> yoe + era * 400 + (IF month <= 2 THEN 1 ELSE 0),
         month |-> month,
         day |-> doy - (153 * mp + 2) \div 5 + 1,
         hour |-> rest \div 3600,
         minute |-> (rest % 3600) \div 60]

\* Format("02 Jan 2006 15:04")
FormatObsTime(sec) ==
    LET t == CivilTime(sec)
    IN  FmtInt02(t.day) \o " " \o MonthNames[t.month] \o " " \o FmtNat(t.year)
            \o " " \o FmtInt02(t.hour) \o ":" \o FmtInt02(t.minute)

\* Render of a lipgloss colour style: the text, unchanged
Render(text) == text

BorderTopLeft == "\\u256d"
BorderTopRight == "\\u256e"
BorderBottomLeft == "\\u2570"
BorderBottomRight == "\\u256f"
BorderHorizontal == "\\u2500"
BorderVertical == "\\u2502"

RECURSIVE Repeat(_, _)
Repeat(s, n) == IF n <= 0 THEN "" ELSE s \o Repeat(s, n - 1)

\* boxStyle.Render: the lines of the text, padded to the widest of them,
\* with one space of padding on each side, inside a rounded border
boxStyle_Render(text) ==
    LET lines == SplitOn(text, "\n")
        width == CHOOSE w \in { RuneCount(lines[i]) : i \in 1..Len(lines) } :
                     \A i \in 1..Len(lines) : RuneCount(lines[i]) <= w
        rows == [i \in 1..Len(lines) |->
                    BorderVertical \o " " \o PadRight(lines[i], width) \o " "
                        \o BorderVertical]
    IN  BorderTopLeft \o Repeat(BorderHorizontal, width + 2) \o BorderTopRight
            \o "\n" \o Join(rows, "\n") \o "\n"
            \o BorderBottomLeft \o Repeat(BorderHorizontal, width + 2)
            \o BorderBottomRight

formatLine(label, value) ==
    Render(PadRight(label, 11)) \o Render(value) \o "\n"

formatFlightLine(fr) ==
    Render(PadRight("Flight", 11)) \o Render(fr) \o "\n"

\* variant of Decode_lines: no Wind line for a calm wind
Decode_lines_SkipCalmWind(m) ==
    (Render(m.StationID)
         \o (IF m.Name # "" THEN Render(" " \o MiddleDot \o " ") \o Render(m.Name)
             ELSE "")
         \o "\n")
    \o (IF m.ObsTime > 0
        THEN formatLine("Time", FormatObsTime(m.ObsTime) \o " UTC") ELSE "")
    \o formatFlightLine(m.FlightRules)
    \o (IF m.WindSpeed = 0 THEN ""
        ELSE formatLine("Wind", formatWind(m.Wind, m.WindSpeed, m.WindGust)))
    \o formatLine("Visibility", formatVisibility(m.Visibility))
    \o formatLine("Temp", FmtFloat0(m.Temp) \o DegreeSign \o "C (Dewpoint: "
                              \o FmtFloat0(m.Dewpoint) \o DegreeSign \o "C)")
    \o formatLine("Altimeter", FmtFloat2(altInHg(m.Altimeter))
                                   \o " inHg / " \o FmtFloat0(m.Altimeter)
                                   \o " hPa")

\* the lines written to the builder up to the altimeter line
Decode_lines(m) ==
    (Render(m.StationID)
         \o (IF m.Name # "" THEN Render(" " \o MiddleDot \o " ") \o Render(m.Name)
             ELSE "")
         \o "\n")
    \o (IF m.ObsTime > 0
        THEN formatLine("Time", FormatObsTime(m.ObsTime) \o " UTC") ELSE "")
    \o formatFlightLine(m.FlightRules)
    \o formatLine("Wind", formatWind(m.Wind, m.WindSpeed, m.WindGust))
    \o formatLine("Visibility", formatVisibility(m.Visibility))
    \o formatLine("Temp", FmtFloat0(m.Temp) \o DegreeSign \o "C (Dewpoint: "
                              \o FmtFloat0(m.Dewpoint) \o DegreeSign \o "C)")
    \o formatLine("Altimeter", FmtFloat2(altInHg(m.Altimeter))
                                   \o " inHg / " \o FmtFloat0(m.Altimeter)
                                   \o " hPa")

\* variant of Decode_builder: the clouds written with formatLine
Decode_CloudsAsLine(m) ==
    Decode_lines(m)
    \o (IF Len(m.Clouds) > 0 THEN formatLine("Clouds", formatClouds(m.Clouds))
        ELSE formatLine("Clouds", "Clear"))

\* variant of Decode_builder: the clouds always from formatClouds
Decode_NoClearSubstitute(m) ==
    Decode_lines(m)
    \o Render(PadRight("Clouds", 11))
    \o Render(formatClouds(m.Clouds))

\* the content of the builder when Decode hands it to the box
Decode_builder(m) ==
    Decode_lines(m)
    \o Render(PadRight("Clouds", 11))
    \o (IF Len(m.Clouds) > 0 THEN Render(formatClouds(m.Clouds))
        ELSE Render("Clear"))

Decode(m) == boxStyle_Render(Decode_builder(m))

-----------------------------------------------------------------------------
(* DecodeTAF, formatTAFForecast *)

\* Go pointers to int (TAFForecast.Probability, TAFForecast.WindGust)
PtrNil == [nil |-> TRUE, val |-> 0]
PtrTo(v) == [nil |-> FALSE, val |-> v]

WeekdayNames == <<"Sun", "Mon", "Tue", "Wed", "Thu", "Fri", "Sat">>

\* Format("Mon") of an epoch >= 0: 1 January 1970 was a Thursday
FormatWeekday(sec) == WeekdayNames[(((sec \div 86400) + 4) % 7) + 1]

\* Format("15:04")
FormatClock(sec) ==
    LET t == CivilTime(sec)
    IN  FmtInt02(t.hour) \o ":" \o FmtInt02(t.minute)

\* Format("02 Jan 15:04")
FormatValidTime(sec) ==
    LET t == CivilTime(sec)
    IN  FmtInt02(t.day) \o " " \o MonthNames[t.month] \o " " \o FormatClock(sec)

formatTAFLine(label, value) ==
    Render("  " \o PadRight(label, 9)) \o Render(value) \o "\n"

SeparatorWidth == 28

\* variant of formatTAFForecast_prefix: a probability is shown whenever the
\* period carries one
formatTAFForecast_ProbAlways(f) ==
    IF ~f.Probability.nil THEN "Prob" \o PadRight(FmtInt(f.Probability.val), 2)
    ELSE CASE f.FcstChange = "FM" -> "From  "
           [] f.FcstChange = "TEMPO" -> "Tempo "
           [] f.FcstChange = "BECMG" -> "Becmg "
           [] f.FcstChange = "PROB" -> "Prob  "
           [] OTHER -> "Init  "

\* the switch on the change indicator
formatTAFForecast_prefix(f) ==
    CASE f.FcstChange = "FM" -> "From  "
      [] f.FcstChange = "TEMPO" -> "Tempo "
      [] f.FcstChange = "BECMG" -> "Becmg "
      [] f.FcstChange = "PROB" ->
             IF ~f.Probability.nil
             THEN "Prob" \o PadRight(FmtInt(f.Probability.val), 2)
             ELSE "Prob  "
      [] OTHER -> "Init  "

\* the separator and the header line of a period
formatTAFForecast_header(f, isFirst) ==
    (IF ~isFirst
     THEN Render(Repeat(BorderHorizontal, SeparatorWidth)) \o "\n" ELSE "")
    \o Render(formatTAFForecast_prefix(f)
                  \o FormatWeekday(f.TimeFrom) \o " " \o FormatClock(f.TimeFrom)
                  \o " - "
                  \o FormatWeekday(f.TimeTo) \o " " \o FormatClock(f.TimeTo))
    \o "\n"

\* variant of formatTAFForecast_details: a line for a wind of speed 0 too
formatTAFForecast_WindAlways(f) ==
    (IF f.WindSpeed >= 0
     THEN formatTAFLine("Wind",
              formatWind(f.WindDir, f.WindSpeed,
                         IF ~f.WindGust.nil THEN f.WindGust.val ELSE 0))
     ELSE "")
    \o (IF f.Visibility.type # "nil" /\ f.Visibility # AnyString("")
        THEN formatTAFLine("Visib", formatVisibility(f.Visibility)) ELSE "")
    \o (IF f.Weather # ""
        THEN formatTAFLine("Weather", decodeWeather(f.Weather)) ELSE "")

\* the Wind, Visib and Weather lines of a period
formatTAFForecast_details(f) ==
    (IF f.WindSpeed > 0
     THEN formatTAFLine("Wind",
              formatWind(f.WindDir, f.WindSpeed,
                         IF ~f.WindGust.nil THEN f.WindGust.val ELSE 0))
     ELSE "")
    \o (IF f.Visibility.type # "nil" /\ f.Visibility # AnyString("")
        THEN formatTAFLine("Visib", formatVisibility(f.Visibility)) ELSE "")
    \o (IF f.Weather # ""
        THEN formatTAFLine("Weather", decodeWeather(f.Weather)) ELSE "")

\* strings.TrimSuffix
TrimSuffix(s, suffix) ==
    IF HasSuffix(s, suffix) THEN SubSeq(s, 1, Len(s) - Len(suffix)) ELSE s

\* variant of formatTAFForecast: the newline is removed after a Clouds line
\* only
formatTAFForecast_TrimCloudsOnly(f, isFirst, isLast) ==
    LET str == formatTAFForecast_header(f, isFirst)
                   \o formatTAFForecast_details(f)
    IN  IF Len(f.Clouds) > 0
        THEN LET cloudsLine == formatTAFLine("Clouds", formatClouds(f.Clouds))
             IN  str \o (IF isLast THEN TrimSuffix(cloudsLine, "\n")
                         ELSE cloudsLine)
        ELSE str

formatTAFForecast(f, isFirst, isLast) ==
    LET str == formatTAFForecast_header(f, isFirst)
                   \o formatTAFForecast_details(f)
    IN  IF Len(f.Clouds) > 0
        THEN LET cloudsLine == formatTAFLine("Clouds", formatClouds(f.Clouds))
             IN  str \o (IF isLast THEN TrimSuffix(cloudsLine, "\n")
                         ELSE cloudsLine)
        ELSE IF isLast /\ HasSuffix(str, "\n") THEN TrimSuffix(str, "\n")
        ELSE str

\* variant of DecodeTAF_periods: no period is taken for the first one
RECURSIVE DecodeTAF_SeparatorBeforeEach(_, _)
DecodeTAF_SeparatorBeforeEach(forecasts, i) ==
    IF i > Len(forecasts) THEN ""
    ELSE formatTAFForecast(forecasts[i], FALSE, i = Len(forecasts))
             \o DecodeTAF_SeparatorBeforeEach(forecasts, i + 1)

\* the loop over the forecast periods
RECURSIVE DecodeTAF_periods(_, _)
DecodeTAF_periods(forecasts, i) ==
    IF i > Len(forecasts) THEN ""
    ELSE formatTAFForecast(forecasts[i], i = 1, i = Len(forecasts))
             \o DecodeTAF_periods(forecasts, i + 1)

\* the content of the builder when DecodeTAF hands it to the box
DecodeTAF_builder(t) ==
    (Render(t.StationID)
         \o (IF t.Name # "" THEN Render(" " \o MiddleDot \o " ") \o Render(t.Name)
             ELSE "")
         \o "\n")
    \o Render("TAF FORECAST") \o "\n"
    \o (IF t.ValidTimeFrom > 0 /\ t.ValidTimeTo > 0
        THEN formatLine("Valid", FormatValidTime(t.ValidTimeFrom) \o " to "
                                     \o FormatValidTime(t.ValidTimeTo) \o " UTC")
        ELSE "")
    \o DecodeTAF_periods(t.Forecasts, 1)

DecodeTAF(t) == boxStyle_Render(DecodeTAF_builder(t))

-----------------------------------------------------------------------------
(* ValidateICAO, Fetch, FetchTAF, FetchMultiple, FetchMultipleTAF *)

\* len(s) of Go: the number of bytes of s
RECURSIVE ByteLen(_)
ByteLen(s) ==
    LET rs == Runes(s)
    IN  IF rs = <<>> THEN 0
        ELSE Utf8Len(rs[1]) + ByteLen(SliceFrom(s, Len(rs[1])))

LowerLetters == "abcdefghijklmnopqrstuvwxyz"
UpperLetters == "ABCDEFGHIJKLMNOPQRSTUVWXYZ"
DecimalDigits == "0123456789"

\* U+00E9 and U+00C9, small and capital e with acute accent
SmallEAcute == "\\u00e9"
CapitalEAcute == "\\u00c9"

\* unicode.IsLetter, on ASCII and the two accented letters
IsLetter(r) ==
    \/ Len(r) = 1 /\ Contains(LowerLetters \o UpperLetters, r)
    \/ r \in {SmallEAcute, CapitalEAcute}

\* unicode.IsDigit, on ASCII and the two accented letters
IsDigit(r) == Len(r) = 1 /\ Contains(DecimalDigits, r)

\* unicode.ToUpper, on ASCII and the two accented letters
ToUpperRune(r) ==
    IF Len(r) = 1 /\ Contains(LowerLetters, r)
    THEN LET i == CHOOSE k \in 1..26 : SubSeq(LowerLetters, k, k) = r
         IN  SubSeq(UpperLetters, i, i)
    ELSE IF r = SmallEAcute THEN CapitalEAcute
    ELSE r

\* strings.ToUpper
RECURSIVE ToUpper(_)
ToUpper(s) ==
    LET rs == Runes(s)
    IN  IF rs = <<>> THEN ""
        ELSE ToUpperRune(rs[1]) \o ToUpper(SliceFrom(s, Len(rs[1])))

isAlphanumeric(s) ==
    \A i \in 1..Len(Runes(s)) : IsLetter(Runes(s)[i]) \/ IsDigit(Runes(s)[i])

\* %q of a string of letters, digits and punctuation other than the quote
\* and the backslash
Quote(s) == "\"" \o s \o "\""

\* (string, error): err is "" for a nil error
ValidateICAO(icao) ==
    LET up == ToUpper(icao)
    IN  IF ByteLen(up) # 4
        THEN [code |-> "",
              err |-> "invalid ICAO code " \o Quote(up)
                          \o ": must be 4 characters"]
        ELSE IF ~isAlphanumeric(up)
        THEN [code |-> "",
              err |-> "invalid ICAO code " \o Quote(up)
                          \o ": must contain only letters and numbers"]
        ELSE [code |-> up, err |-> ""]

\* variant of Fetch_validate: the characters are checked before the length
Fetch_validate_CharactersFirst(icao) ==
    LET up == ToUpper(icao)
    IN  IF ~isAlphanumeric(up)
        THEN "invalid ICAO code: must contain only letters and numbers"
        ELSE IF ByteLen(up) # 4
        THEN "invalid ICAO code: must be 4 characters (e.g., KJFK)"
        ELSE ""

\* the checks at the head of Fetch: the error message, "" when they pass
Fetch_validate(icao) ==
    LET up == ToUpper(icao)
    IN  IF ByteLen(up) # 4
        THEN "invalid ICAO code: must be 4 characters (e.g., KJFK)"
        ELSE IF ~isAlphanumeric(up)
        THEN "invalid ICAO code: must contain only letters and numbers"
        ELSE ""

StatusOK == 200

\* The outcome of a fetch function is [requests, val, err]: the URLs
\* requested, the records returned (<<>> for nil; a pointer to one record is
\* a sequence of one record) and the error message ("" for nil).
\* A response resp of the API is [transport, status, parse, data]: the error
\* of httpClient.Get ("" for none), the status code, the error of the JSON
\* decoder ("" for none) and the records decoded.  httpClient.Get returns
\* with [transport, status]; parse and data come with the body, which the
\* decoder reads afterwards.  While the function is blocked, before the
\* request is answered or in the read of the body, its outcome is
\* [requests] alone.

\* variant of Fetch_response: the records are counted before the status is
\* looked at
Fetch_response_CountFirst(url, resp, product, emptyMessage, single) ==
    IF resp.transport # ""
    THEN [requests |-> <<url>>, val |-> <<>>,
          err |-> "failed to fetch " \o product \o ": " \o resp.transport]
    ELSE IF "data" \notin DOMAIN resp
    THEN [requests |-> <<url>>]
    ELSE IF Len(resp.data) = 0
    THEN [requests |-> <<url>>, val |-> <<>>, err |-> emptyMessage]
    ELSE IF resp.status # StatusOK
    THEN [requests |-> <<url>>, val |-> <<>>,
          err |-> "API returned status " \o FmtInt(resp.status)]
    ELSE IF resp.parse # ""
    THEN [requests |-> <<url>>, val |-> <<>>,
          err |-> "failed to parse response: " \o resp.parse]
    ELSE [requests |-> <<url>>,
          val |-> IF single THEN <<resp.data[1]>> ELSE resp.data,
          err |-> ""]

\* variant of Fetch_response: a response without records is a success
Fetch_response_EmptySuccess(url, resp, product, emptyMessage, single) ==
    IF resp.transport # ""
    THEN [requests |-> <<url>>, val |-> <<>>,
          err |-> "failed to fetch " \o product \o ": " \o resp.transport]
    ELSE IF resp.status # StatusOK
    THEN [requests |-> <<url>>, val |-> <<>>,
          err |-> "API returned status " \o FmtInt(resp.status)]
    ELSE IF "parse" \notin DOMAIN resp
    THEN [requests |-> <<url>>]
    ELSE IF resp.parse # ""
    THEN [requests |-> <<url>>, val |-> <<>>,
          err |-> "failed to parse response: " \o resp.parse]
    ELSE [requests |-> <<url>>,
          val |-> IF single /\ Len(resp.data) > 0 THEN <<resp.data[1]>>
                  ELSE resp.data,
          err |-> ""]

\* what follows the request, as far as resp has arrived: the error checks
\* and the records returned
Fetch_response(url, resp, product, emptyMessage, single) ==
    IF resp.transport # ""
    THEN [requests |-> <<url>>, val |-> <<>>,
          err |-> "failed to fetch " \o product \o ": " \o resp.transport]
    ELSE IF resp.status # StatusOK
    THEN [requests |-> <<url>>, val |-> <<>>,
          err |-> "API returned status " \o FmtInt(resp.status)]
    ELSE IF "parse" \notin DOMAIN resp
    THEN [requests |-> <<url>>]
    ELSE IF resp.parse # ""
    THEN [requests |-> <<url>>, val |-> <<>>,
          err |-> "failed to parse response: " \o resp.parse]
    ELSE IF Len(resp.data) = 0
    THEN [requests |-> <<url>>, val |-> <<>>, err |-> emptyMessage]
    ELSE [requests |-> <<url>>,
          val |-> IF single THEN <<resp.data[1]>> ELSE resp.data,
          err |-> ""]

MetarURL(ids) ==
    "https://aviationweather.gov/api/data/metar?ids=" \o ids \o "&format=json"

TafURL(ids) ==
    "https://aviationweather.gov/api/data/taf?ids=" \o ids \o "&format=json"

\* Fetch up to httpClient.Get: the outcome when a check fails, the request
\* when they pass (no val and no err yet)
Fetch_call(icao) ==
    IF Fetch_validate(icao) # ""
    THEN [requests |-> <<>>, val |-> <<>>, err |-> Fetch_validate(icao)]
    ELSE [requests |-> <<MetarURL(ToUpper(icao))>>]

Fetch(icao, resp) ==
    LET c == Fetch_call(icao)
    IN  IF c.requests = <<>> THEN c
        ELSE Fetch_response(c.requests[1], resp, "METAR",
                 "no METAR found for " \o ToUpper(icao)
                     \o " - check the ICAO code", TRUE)

\* FetchTAF up to httpClient.Get
FetchTAF_call(icao) ==
    IF ValidateICAO(icao).err # ""
    THEN [requests |-> <<>>, val |-> <<>>, err |-> ValidateICAO(icao).err]
    ELSE [requests |-> <<TafURL(ValidateICAO(icao).code)>>]

FetchTAF(icao, resp) ==
    LET c == FetchTAF_call(icao)
    IN  IF c.requests = <<>> THEN c
        ELSE Fetch_response(c.requests[1], resp, "TAF",
                 "no TAF found for " \o ValidateICAO(icao).code
                     \o " - check the ICAO code", TRUE)

\* the validation loop of FetchMultiple and FetchMultipleTAF from position i:
\* the codes validated so far and the error that stopped the loop
RECURSIVE FetchMultiple_validate(_, _, _)
FetchMultiple_validate(icaos, i, validICAOs) ==
    IF i > Len(icaos) THEN [validICAOs |-> validICAOs, err |-> ""]
    ELSE IF ValidateICAO(icaos[i]).err # ""
    THEN [validICAOs |-> validICAOs, err |-> ValidateICAO(icaos[i]).err]
    ELSE FetchMultiple_validate(icaos, i + 1,
             Append(validICAOs, ValidateICAO(icaos[i]).code))

\* FetchMultiple up to httpClient.Get
FetchMultiple_call(icaos) ==
    IF Len(icaos) = 0
    THEN [requests |-> <<>>, val |-> <<>>, err |-> "no ICAO codes provided"]
    ELSE LET v == FetchMultiple_validate(icaos, 1, <<>>)
         IN  IF v.err # ""
             THEN [requests |-> <<>>, val |-> <<>>, err |-> v.err]
             ELSE [requests |-> <<MetarURL(Join(v.validICAOs, ","))>>]

FetchMultiple(icaos, resp) ==
    LET c == FetchMultiple_call(icaos)
    IN  IF c.requests = <<>> THEN c
        ELSE Fetch_response(c.requests[1], resp, "METAR",
                 "no METAR data found for the requested airports", FALSE)

\* FetchMultipleTAF up to httpClient.Get
FetchMultipleTAF_call(icaos) ==
    IF Len(icaos) = 0
    THEN [requests |-> <<>>, val |-> <<>>, err |-> "no ICAO codes provided"]
    ELSE LET v == FetchMultiple_validate(icaos, 1, <<>>)
         IN  IF v.err # ""
             THEN [requests |-> <<>>, val |-> <<>>, err |-> v.err]
             ELSE [requests |-> <<TafURL(Join(v.validICAOs, ","))>>]

FetchMultipleTAF(icaos, resp) ==
    LET c == FetchMultipleTAF_call(icaos)
    IN  IF c.requests = <<>> THEN c
        ELSE Fetch_response(c.requests[1], resp, "TAF",
                 "no TAF data found for the requested airports", FALSE)

-----
(* main: the command of the CLI *)

\* the version of a build without ldflags
version == "dev"

\* the text that cmd.Usage() writes to the standard error: the usage line
\* of the command and its flags in alphabetical order, the help flag that
\* cobra adds included, in cobra's default layout
cmd_Usage ==
    "Usage:\n  go-metar [ICAO...] [flags]\n"
        \o "\nFlags:\n"
        \o "  -a, --all       Show both raw and decoded output\n"
        \o "  -h, --help      help for go-metar\n"
        \o "  -r, --raw       Show raw METAR string only\n"
        \o "  -t, --taf       Include TAF forecast\n"
        \o "  -v, --version   Show version information\n"

\* the loop over the METARs fetched, from position i
RECURSIVE main_metars(_, _, _, _)
main_metars(metars, i, rawOutput, allOutput) ==
    IF i > Len(metars) THEN ""
    ELSE LET data == metars[i]
         IN  (IF rawOutput THEN data.Raw \o "\n"
              ELSE IF allOutput
              THEN (IF i > 1 THEN "\n" ELSE "")
                       \o "Raw METAR (" \o data.StationID \o "):\n"
                       \o data.Raw \o "\n"
                       \o "\nDecoded:" \o "\n"
                       \o Decode(data) \o "\n"
              ELSE (IF i > 1 THEN "\n" ELSE "") \o Decode(data) \o "\n")
             \o main_metars(metars, i + 1, rawOutput, allOutput)

\* the loop over the TAFs fetched, from position i
RECURSIVE main_tafs(_, _, _)
main_tafs(tafs, i, rawOutput) ==
    IF i > Len(tafs) THEN ""
    ELSE (IF rawOutput THEN tafs[i].RawTAF \o "\n"
          ELSE (IF i > 1 THEN "\n" ELSE "") \o DecodeTAF(tafs[i]) \o "\n")
             \o main_tafs(tafs, i + 1, rawOutput)

\* The outcome of main is [exit, stdout, stderr, requests, waiting]: the
\* exit status of the process (0 when the command returns), what was written
\* to the two streams and the URLs requested.  While the command is blocked
\* in a fetch function, waiting says in what ("Get" or "Body") and there is
\* no exit status; waiting is "" once the process has ended.

\* variant of main_taf: an error of the TAF fetch is reported and the
\* command returns
main_taf_ErrorNotFatal(t, rawOutput, printed, requests) ==
    IF "err" \notin DOMAIN t
    THEN [stdout |-> printed, stderr |-> "",
          requests |-> requests \o t.requests, waiting |-> "Body"]
    ELSE IF t.err # ""
    THEN [exit |-> 0, stdout |-> printed,
          stderr |-> "Error fetching TAF: " \o t.err \o "\n",
          requests |-> requests \o t.requests, waiting |-> ""]
    ELSE [exit |-> 0,
          stdout |-> printed \o "\n" \o main_tafs(t.val, 1, rawOutput),
          stderr |-> "", requests |-> requests \o t.requests, waiting |-> ""]

\* the TAF section of the command from the return of httpClient.Get in
\* FetchMultipleTAF, whose outcome so far is t, after the METARs were printed
main_taf(t, rawOutput, printed, requests) ==
    IF "err" \notin DOMAIN t
    THEN [stdout |-> printed, stderr |-> "",
          requests |-> requests \o t.requests, waiting |-> "Body"]
    ELSE IF t.err # ""
    THEN [exit |-> 1, stdout |-> printed,
          stderr |-> "Error fetching TAF: " \o t.err \o "\n",
          requests |-> requests \o t.requests, waiting |-> ""]
    ELSE [exit |-> 0,
          stdout |-> printed \o "\n" \o main_tafs(t.val, 1, rawOutput),
          stderr |-> "", requests |-> requests \o t.requests, waiting |-> ""]

\* main from the start to the request of FetchMultiple.  flagError is the
\* error of the flag parser ("" for none): with one, rootCmd.Execute()
\* writes it and the usage to the standard error without calling Run, and
\* main exits with 1.
main_call(args, flagError, rawOutput, allOutput, showVersion) ==
    IF flagError # ""
    THEN [exit |-> 1, stdout |-> "",
          stderr |-> "Error: " \o flagError \o "\n" \o cmd_Usage \o "\n",
          requests |-> <<>>, waiting |-> ""]
    ELSE IF showVersion
    THEN [exit |-> 0, stdout |-> "go-metar " \o version \o "\n",
          stderr |-> "", requests |-> <<>>, waiting |-> ""]
    ELSE IF Len(args) < 1
    THEN [exit |-> 1, stdout |-> "",
          stderr |-> "Error: requires at least 1 ICAO code\n" \o cmd_Usage,
          requests |-> <<>>, waiting |-> ""]
    ELSE IF rawOutput /\ allOutput
    THEN [exit |-> 1, stdout |-> "",
          stderr |-> "Error: cannot use both --raw and --all flags\n",
          requests |-> <<>>, waiting |-> ""]
    ELSE LET c == FetchMultiple_call(args)
         IN  IF c.requests = <<>>
             THEN [exit |-> 1, stdout |-> "",
                   stderr |-> "Error: " \o c.err \o "\n",
                   requests |-> <<>>, waiting |-> ""]
             ELSE [stdout |-> "", stderr |-> "", requests |-> c.requests,
                   waiting |-> "Get"]

\* main from the return of httpClient.Get in FetchMultiple, as far as
\* metarResp has arrived: the METARs are printed, and with --taf the command
\* goes on to the request of FetchMultipleTAF
main_metar(args, rawOutput, allOutput, tafOutput, metarResp) ==
    LET m == FetchMultiple(args, metarResp)
    IN  IF "err" \notin DOMAIN m
        THEN [stdout |-> "", stderr |-> "", requests |-> m.requests,
              waiting |-> "Body"]
        ELSE IF m.err # ""
        THEN [exit |-> 1, stdout |-> "",
              stderr |-> "Error: " \o m.err \o "\n",
              requests |-> m.requests, waiting |-> ""]
        ELSE IF tafOutput
        THEN LET c == FetchMultipleTAF_call(args)
             IN  IF c.requests = <<>>
                 THEN main_taf(c, rawOutput,
                          main_metars(m.val, 1, rawOutput, allOutput),
                          m.requests)
                 ELSE [stdout |-> main_metars(m.val, 1, rawOutput, allOutput),
                       stderr |-> "", requests |-> m.requests \o c.requests,
                       waiting |-> "Get"]
        ELSE [exit |-> 0,
              stdout |-> main_metars(m.val, 1, rawOutput, allOutput),
              stderr |-> "", requests |-> m.requests, waiting |-> ""]

\* the whole run of main: the command line as cobra parsed it and the
\* responses the two requests meet
main(args, flagError, rawOutput, allOutput, showVersion, tafOutput, metarResp, tafResp) ==
    LET first == main_call(args, flagError, rawOutput, allOutput, showVersion)
    IN  IF first.waiting = "" THEN first
        ELSE LET second == main_metar(args, rawOutput, allOutput, tafOutput,
                                      metarResp)
             IN  IF second.waiting = "" THEN second
                 ELSE main_taf(FetchMultipleTAF(args, tafResp), rawOutput,
                          second.stdout, <<second.requests[1]>>)

-----
(* Inputs *)

\* wind directions: degrees (whole and fractional), the VRB token, other
\* text, absent, and a value of another JSON type
WindDirs ==
    { AnyFloat(0), AnyFloat(27000), AnyFloat(18000), AnyFloat(17950),
      AnyFloat(18050), AnyString("VRB"), AnyString("360"), AnyString("vrb"),
      AnyString(""), AnyNil, AnyBool }


\* visibilities in statute miles: numbers around the ceiling of 10 (whole,
\* fractional, ties of the rounding), text, absent, another JSON type
Visibilities ==
    { AnyFloat(100 * n) : n \in 0..(MaxVisibility) } \cup
    { AnyFloat(25), AnyFloat(50), AnyFloat(150), AnyFloat(250), AnyFloat(949),
      AnyFloat(950), AnyFloat(975), AnyFloat(999), AnyFloat(1001),
      AnyFloat(1500),
      AnyString("10+"), AnyString("15"), AnyString("P6"), AnyString(""),
      AnyNil, AnyBool }

Covers == {"SKC", "CLR", "FEW", "SCT", "BKN", "OVC", "OVX",
           "", "few", "UNKNOWN", "VV"}

Layers == [Cover : {"FEW", "SCT", "BKN", "OVC", "VV"},
           Base : {-1, 0, 2500, 5000}]

\* weather groups: every string over the characters of the signs and of a few
\* codes, known and unknown
GroupAlphabet == {"-", "+", "V", "C", "R", "A"}
GroupExamples ==
    {"TSRA", "VCSH", "+TSR", "-VCSH", "SHVC", "-TSRAGR", "+FC",
     "\\u00e9", "RA\\u00b0", "-\\u00e9", "R\\u00e9", "RA\\u200bBR",
     "RA\\u001cBR"}

RECURSIVE StringsUpTo(_, _)
StringsUpTo(A, n) ==
    IF n = 0 THEN {""}
    ELSE LET shorter == StringsUpTo(A, n - 1)
         IN  shorter \cup { w \o c : w \in shorter, c \in A }

\* weather strings: groups, the white space between them and around them
WxGroups == {"-RA", "BR", "TSRA", "VCSH", "+", "XYZ", "\\u00b0"}
WxSeparators == {" ", "  ", "\t", " \n", "\\u000b", " \\u00a0"}
WxMargins == {"", " ", "\\u000b"}

\* METAR records
METARs ==
    [StationID : {"KJFK"},
     Name : {"", "John F Kennedy International"},
     Temp : {1500, -40},
     Dewpoint : {1000},
     Wind : {AnyFloat(27000), AnyNil},
     WindSpeed : {0, 10},
     WindGust : {0, 25},
     Visibility : {AnyFloat(1000), AnyFloat(300), AnyString("10+")},
     Altimeter : {101325},
     FlightRules : {"VFR", "IFR", ""},
     Clouds : { <<>>,
                << [Cover |-> "FEW", Base |-> 5000] >>,
                << [Cover |-> "CLR", Base |-> 0] >>,
                << [Cover |-> "SCT", Base |-> 2500],
                   [Cover |-> "BKN", Base |-> 0] >> },
     ObsTime : {0, 1704200000, -1}]
    \cup
    \* pressures whose inHg value is half-way between two hundredths
    [StationID : {"KJFK"}, Name : {""}, Temp : {1500}, Dewpoint : {1000},
     Wind : {AnyNil}, WindSpeed : {0}, WindGust : {0},
     Visibility : {AnyString("10+")},
     Altimeter : {50000, 450000, 550000, 850000, 2147450000},
     FlightRules : {"VFR"}, Clouds : {<<>>}, ObsTime : {0}]

RECURSIVE SeqsUpTo(_, _)
SeqsUpTo(S, n) ==
    IF n = 0 THEN {<<>>}
    ELSE LET shorter == SeqsUpTo(S, n - 1)
         IN  shorter \cup { Append(q, x) : q \in shorter, x \in S }

\* TAF forecast periods: 2 January 2024 18:00 UTC to 3 January 00:00 UTC
PeriodFrom == 1704218400
PeriodTo == 1704240000

TAFForecasts ==
    [TimeFrom : {PeriodFrom},
     TimeTo : {PeriodTo},
     FcstChange : {"", "FM", "TEMPO", "BECMG", "PROB", "XX"},
     Probability : {PtrNil, PtrTo(30), PtrTo(5)},
     WindDir : {AnyFloat(27000)},
     WindSpeed : {-1, 0, 10},
     WindGust : {PtrNil, PtrTo(25)},
     Visibility : {AnyNil, AnyString(""), AnyString("6+"), AnyFloat(300),
                   AnyBool},
     Weather : {"", "-RA BR", " "},
     Clouds : { <<>>, << [Cover |-> "OVC", Base |-> 1500] >> }]

\* the periods of the TAF records: all lines, header alone, weather alone,
\* clouds alone
TAFPeriods ==
    { [TimeFrom |-> PeriodFrom, TimeTo |-> PeriodTo, FcstChange |-> "",
       Probability |-> PtrNil, WindDir |-> AnyFloat(27000), WindSpeed |-> 10,
       WindGust |-> PtrTo(25), Visibility |-> AnyString("6+"),
       Weather |-> "-RA BR",
       Clouds |-> << [Cover |-> "OVC", Base |-> 1500] >>],
      [TimeFrom |-> PeriodFrom, TimeTo |-> PeriodTo, FcstChange |-> "FM",
       Probability |-> PtrNil, WindDir |-> AnyNil, WindSpeed |-> 0,
       WindGust |-> PtrNil, Visibility |-> AnyNil, Weather |-> "",
       Clouds |-> <<>>],
      [TimeFrom |-> PeriodFrom, TimeTo |-> PeriodTo, FcstChange |-> "TEMPO",
       Probability |-> PtrNil, WindDir |-> AnyNil, WindSpeed |-> 0,
       WindGust |-> PtrNil, Visibility |-> AnyNil, Weather |-> "TSRA",
       Clouds |-> <<>>],
      [TimeFrom |-> PeriodFrom, TimeTo |-> PeriodTo, FcstChange |-> "PROB",
       Probability |-> PtrTo(30), WindDir |-> AnyNil, WindSpeed |-> 0,
       WindGust |-> PtrNil, Visibility |-> AnyNil, Weather |-> "",
       Clouds |-> << [Cover |-> "BKN", Base |-> 800] >>] }

\* TAF records
TAFs ==
    [StationID : {"KJFK"},
     Name : {"", "John F Kennedy International"},
     ValidTimeFrom : {0, PeriodFrom},
     ValidTimeTo : {0, PeriodTo},
     Forecasts : SeqsUpTo(TAFPeriods, MaxPeriods)]

\* station codes as typed: letters of both cases, a digit, a character that
\* is neither, a letter outside ASCII
IcaoInputs == StringsUpTo({"k", "J", "1", "-", SmallEAcute}, MaxIcaoLen)

\* the codes handed to the fetch functions
IcaoCodes ==
    {"kjfk", "KLAX", "k1", "kj-k", "", "kjfkx", "k-",
     SmallEAcute \o SmallEAcute, "kjf" \o SmallEAcute}

\* the records of a response, by station
StationRecords == { [StationID |-> "KJFK"], [StationID |-> "KLAX"] }

\* what httpClient.Get returns with: a transport error, a status other than
\* 200, the status 200
ResponseHeads ==
    { [transport |-> "i/o timeout", status |-> 0],
      [transport |-> "", status |-> 500],
      [transport |-> "", status |-> StatusOK] }

\* what the read of the body gives: a body that is not JSON, a list of
\* records
ResponseBodies ==
    { [parse |-> "unexpected EOF", data |-> <<>>] }
    \cup { [parse |-> "", data |-> d] :
              d \in SeqsUpTo(StationRecords, MaxRecords) }

\* the response whose status line is head and whose body is body
Response(head, body) ==
    [transport |-> head.transport, status |-> head.status,
     parse |-> body.parse, data |-> body.data]

\* the station arguments of the command
MainCodes == {"kjfk", "KLAX", "k1"}

\* the errors of cobra's flag parser: none, and an unknown flag
FlagErrors == {"", "unknown flag: --bogus"}

\* the METARs and the TAFs of the API's answers to the command
MainMetars ==
    << [Raw |-> "KJFK 021753Z 27010KT 10SM FEW050 15/10 A2992",
        StationID |-> "KJFK", Name |-> "John F Kennedy International",
        Temp |-> 1500, Dewpoint |-> 1000, Wind |-> AnyFloat(27000),
        WindSpeed |-> 10, WindGust |-> 0, Visibility |-> AnyFloat(1000),
        Altimeter |-> 101325, FlightRules |-> "VFR",
        Clouds |-> << [Cover |-> "FEW", Base |-> 5000] >>,
        ObsTime |-> 1704200000],
       [Raw |-> "KLAX 021753Z 00000KT 3SM BR 12/11 A3001",
        StationID |-> "KLAX", Name |-> "",
        Temp |-> 1200, Dewpoint |-> 1100, Wind |-> AnyFloat(0),
        WindSpeed |-> 0, WindGust |-> 0, Visibility |-> AnyFloat(300),
        Altimeter |-> 101625, FlightRules |-> "IFR",
        Clouds |-> <<>>,
        ObsTime |-> 1704200000] >>

MainTafs ==
    << [RawTAF |-> "TAF KJFK 021730Z 0218/0324 27010KT P6SM FEW050",
        StationID |-> "KJFK", Name |-> "John F Kennedy International",
        ValidTimeFrom |-> PeriodFrom, ValidTimeTo |-> PeriodTo,
        Forecasts |-> << [TimeFrom |-> PeriodFrom, TimeTo |-> PeriodTo,
                          FcstChange |-> "", Probability |-> PtrNil,
                          WindDir |-> AnyFloat(27000), WindSpeed |-> 10,
                          WindGust |-> PtrNil, Visibility |-> AnyString("6+"),
                          Weather |-> "",
                          Clouds |-> << [Cover |-> "FEW", Base |-> 5000] >>] >>],
       [RawTAF |-> "TAF KLAX 021730Z 0218/0324 00000KT 3SM BR",
        StationID |-> "KLAX", Name |-> "",
        ValidTimeFrom |-> PeriodFrom, ValidTimeTo |-> PeriodTo,
        Forecasts |-> <<>>] >>

\* the bodies of the responses to a request of the command for the records
MainBodies(records) ==
    { [parse |-> "unexpected EOF", data |-> <<>>],
      [parse |-> "", data |-> <<>>],
      [parse |-> "", data |-> <<records[1]>>],
      [parse |-> "", data |-> records] }

-----------------------------------------------------------------------------
(* The state machine: one call per step *)

Init ==
    /\ fn = "none"
    /\ input = <<>>
    /\ output = ""
    /\ sb = ""
    /\ http = <<>>
    /\ waiting = ""

CallFormatWind ==
    /\ fn = "none"
    /\ \E dir \in WindDirs, speed \in (-1..MaxSpeed) \cup {10, 15},
          gust \in (-1..MaxGust) \cup {25} :
        /\ fn' = "formatWind"
        /\ input' = [dir |-> dir, speed |-> speed, gust |-> gust]
        /\ output' = formatWind(dir, speed, gust)
        /\ sb' = ""
        /\ http' = <<>>
        /\ waiting' = ""

CallFormatVisibility ==
    /\ fn = "none"
    /\ \E vis \in Visibilities :
        /\ fn' = "formatVisibility"
        /\ input' = [vis |-> vis]
        /\ output' = formatVisibility(vis)
        /\ sb' = ""
        /\ http' = <<>>
        /\ waiting' = ""

CallExpandCloudCover ==
    /\ fn = "none"
    /\ \E cover \in Covers :
        /\ fn' = "expandCloudCover"
        /\ input' = [cover |-> cover]
        /\ output' = expandCloudCover(cover)
        /\ sb' = ""
        /\ http' = <<>>
        /\ waiting' = ""

CallFormatClouds ==
    /\ fn = "none"
    /\ \E clouds \in SeqsUpTo(Layers, MaxLayers) :
        /\ fn' = "formatClouds"
        /\ input' = [clouds |-> clouds]
        /\ output' = formatClouds(clouds)
        /\ sb' = ""
        /\ http' = <<>>
        /\ waiting' = ""

CallDecodeWeatherGroup ==
    /\ fn = "none"
    /\ \E group \in StringsUpTo(GroupAlphabet, MaxGroupLen) \cup GroupExamples :
        /\ fn' = "decodeWeatherGroup"
        /\ input' = [group |-> group]
        /\ output' = decodeWeatherGroup(group)
        /\ sb' = ""
        /\ http' = <<>>
        /\ waiting' = ""

\* the string is built from its groups, which the state keeps beside it
CallDecodeWeather ==
    /\ fn = "none"
    /\ \E groups \in SeqsUpTo(WxGroups, MaxGroups), sep \in WxSeparators,
       lead \in WxMargins, trail \in WxMargins :
        LET wxString == lead \o Join(groups, sep) \o trail
        IN  /\ fn' = "decodeWeather"
            /\ input' = [wxString |-> wxString, groups |-> groups]
            /\ output' = decodeWeather(wxString)
            /\ sb' = ""
            /\ http' = <<>>
            /\ waiting' = ""

CallDecode ==
    /\ fn = "none"
    /\ \E m \in METARs :
        /\ fn' = "Decode"
        /\ input' = [m |-> m]
        /\ sb' = Decode_builder(m)
        /\ http' = <<>>
        /\ waiting' = ""
        /\ output' = Decode(m)

\* the call returns to the caller
Return ==
    /\ fn # "none"
    /\ waiting = ""
    /\ fn' = "none"
    /\ input' = <<>>
    /\ output' = ""
    /\ sb' = ""
    /\ http' = <<>>
    /\ waiting' = ""

Next ==
    \/ CallFormatWind
    \/ CallFormatVisibility
    \/ CallExpandCloudCover
    \/ CallFormatClouds
    \/ CallDecodeWeatherGroup
    \/ CallDecodeWeather
    \/ CallDecode
    \/ Return

Spec == Init /\ [][Next]_vars

-----------------------------------------------------------------------------
(* The TAF formatter: one call per step *)

CallFormatTAFForecast ==
    /\ fn = "none"
    /\ \E f \in TAFForecasts, isFirst \in BOOLEAN, isLast \in BOOLEAN :
        /\ fn' = "formatTAFForecast"
        /\ input' = [f |-> f, isFirst |-> isFirst, isLast |-> isLast]
        /\ output' = formatTAFForecast(f, isFirst, isLast)
        /\ sb' = ""
        /\ http' = <<>>
        /\ waiting' = ""

CallDecodeTAF ==
    /\ fn = "none"
    /\ \E t \in TAFs :
        /\ fn' = "DecodeTAF"
        /\ input' = [t |-> t]
        /\ sb' = DecodeTAF_builder(t)
        /\ http' = <<>>
        /\ waiting' = ""
        /\ output' = DecodeTAF(t)

NextTAF ==
    \/ CallFormatTAFForecast
    \/ CallDecodeTAF
    \/ Return

SpecTAF == Init /\ [][NextTAF]_vars

-----------------------------------------------------------------------------------------------------------------------------------------------------------------------------------------------------------------------------
(* The client: a call takes one step when it returns before any request,  *)
(* and otherwise one step up to httpClient.Get, one step from the return  *)
(* of httpClient.Get to the read of the body, unless the call returns on  *)
(* an error of the transport or of the status, and one step from the      *)
(* body to the return.  What arrives is the API's choice.  input holds    *)
(* the argument of the call and what has arrived of the response.         *)

CallValidateICAO ==
    /\ fn = "none"
    /\ \E icao \in IcaoInputs :
        /\ fn' = "ValidateICAO"
        /\ input' = [icao |-> icao]
        /\ output' = ValidateICAO(icao)
        /\ sb' = ""
        /\ http' = <<>>
        /\ waiting' = ""

CallFetch ==
    /\ fn = "none"
    /\ \E icao \in IcaoCodes :
        \E c \in {Fetch_call(icao)} :
            /\ fn' = "Fetch"
            /\ input' = [icao |-> icao]
            /\ output' = IF c.requests = <<>>
                         THEN [val |-> c.val, err |-> c.err] ELSE ""
            /\ sb' = ""
            /\ http' = c.requests
            /\ waiting' = IF c.requests = <<>> THEN "" ELSE "Get"

FetchResponse ==
    /\ fn = "Fetch"
    /\ waiting = "Get"
    /\ \E head \in ResponseHeads :
        \E r \in {Fetch(input.icao, head)} :
            /\ fn' = fn
            /\ input' = [icao |-> input.icao, resp |-> head]
            /\ output' = IF "err" \in DOMAIN r
                         THEN [val |-> r.val, err |-> r.err] ELSE ""
            /\ sb' = ""
            /\ http' = r.requests
            /\ waiting' = IF "err" \in DOMAIN r THEN "" ELSE "Body"

FetchBody ==
    /\ fn = "Fetch"
    /\ waiting = "Body"
    /\ \E body \in ResponseBodies :
        \E r \in {Fetch(input.icao, Response(input.resp, body))} :
            /\ fn' = fn
            /\ input' = [icao |-> input.icao,
                         resp |-> Response(input.resp, body)]
            /\ output' = [val |-> r.val, err |-> r.err]
            /\ sb' = ""
            /\ http' = r.requests
            /\ waiting' = ""

CallFetchTAF ==
    /\ fn = "none"
    /\ \E icao \in IcaoCodes :
        \E c \in {FetchTAF_call(icao)} :
            /\ fn' = "FetchTAF"
            /\ input' = [icao |-> icao]
            /\ output' = IF c.requests = <<>>
                         THEN [val |-> c.val, err |-> c.err] ELSE ""
            /\ sb' = ""
            /\ http' = c.requests
            /\ waiting' = IF c.requests = <<>> THEN "" ELSE "Get"

FetchTAFResponse ==
    /\ fn = "FetchTAF"
    /\ waiting = "Get"
    /\ \E head \in ResponseHeads :
        \E r \in {FetchTAF(input.icao, head)} :
            /\ fn' = fn
            /\ input' = [icao |-> input.icao, resp |-> head]
            /\ output' = IF "err" \in DOMAIN r
                         THEN [val |-> r.val, err |-> r.err] ELSE ""
            /\ sb' = ""
            /\ http' = r.requests
            /\ waiting' = IF "err" \in DOMAIN r THEN "" ELSE "Body"

FetchTAFBody ==
    /\ fn = "FetchTAF"
    /\ waiting = "Body"
    /\ \E body \in ResponseBodies :
        \E r \in {FetchTAF(input.icao, Response(input.resp, body))} :
            /\ fn' = fn
            /\ input' = [icao |-> input.icao,
                         resp |-> Response(input.resp, body)]
            /\ output' = [val |-> r.val, err |-> r.err]
            /\ sb' = ""
            /\ http' = r.requests
            /\ waiting' = ""

CallFetchMultiple ==
    /\ fn = "none"
    /\ \E icaos \in SeqsUpTo(IcaoCodes, MaxCodes) :
        \E c \in {FetchMultiple_call(icaos)} :
            /\ fn' = "FetchMultiple"
            /\ input' = [icaos |-> icaos]
            /\ output' = IF c.requests = <<>>
                         THEN [val |-> c.val, err |-> c.err] ELSE ""
            /\ sb' = ""
            /\ http' = c.requests
            /\ waiting' = IF c.requests = <<>> THEN "" ELSE "Get"

FetchMultipleResponse ==
    /\ fn = "FetchMultiple"
    /\ waiting = "Get"
    /\ \E head \in ResponseHeads :
        \E r \in {FetchMultiple(input.icaos, head)} :
            /\ fn' = fn
            /\ input' = [icaos |-> input.icaos, resp |-> head]
            /\ output' = IF "err" \in DOMAIN r
                         THEN [val |-> r.val, err |-> r.err] ELSE ""
            /\ sb' = ""
            /\ http' = r.requests
            /\ waiting' = IF "err" \in DOMAIN r THEN "" ELSE "Body"

FetchMultipleBody ==
    /\ fn = "FetchMultiple"
    /\ waiting = "Body"
    /\ \E body \in ResponseBodies :
        \E r \in {FetchMultiple(input.icaos, Response(input.resp, body))} :
            /\ fn' = fn
            /\ input' = [icaos |-> input.icaos,
                         resp |-> Response(input.resp, body)]
            /\ output' = [val |-> r.val, err |-> r.err]
            /\ sb' = ""
            /\ http' = r.requests
            /\ waiting' = ""

CallFetchMultipleTAF ==
    /\ fn = "none"
    /\ \E icaos \in SeqsUpTo(IcaoCodes, MaxCodes) :
        \E c \in {FetchMultipleTAF_call(icaos)} :
            /\ fn' = "FetchMultipleTAF"
            /\ input' = [icaos |-> icaos]
            /\ output' = IF c.requests = <<>>
                         THEN [val |-> c.val, err |-> c.err] ELSE ""
            /\ sb' = ""
            /\ http' = c.requests
            /\ waiting' = IF c.requests = <<>> THEN "" ELSE "Get"

FetchMultipleTAFResponse ==
    /\ fn = "FetchMultipleTAF"
    /\ waiting = "Get"
    /\ \E head \in ResponseHeads :
        \E r \in {FetchMultipleTAF(input.icaos, head)} :
            /\ fn' = fn
            /\ input' = [icaos |-> input.icaos, resp |-> head]
            /\ output' = IF "err" \in DOMAIN r
                         THEN [val |-> r.val, err |-> r.err] ELSE ""
            /\ sb' = ""
            /\ http' = r.requests
            /\ waiting' = IF "err" \in DOMAIN r THEN "" ELSE "Body"

FetchMultipleTAFBody ==
    /\ fn = "FetchMultipleTAF"
    /\ waiting = "Body"
    /\ \E body \in ResponseBodies :
        \E r \in {FetchMultipleTAF(input.icaos, Response(input.resp, body))} :
            /\ fn' = fn
            /\ input' = [icaos |-> input.icaos,
                         resp |-> Response(input.resp, body)]
            /\ output' = [val |-> r.val, err |-> r.err]
            /\ sb' = ""
            /\ http' = r.requests
            /\ waiting' = ""

NextFetch ==
    \/ CallValidateICAO
    \/ CallFetch
    \/ FetchResponse
    \/ FetchBody
    \/ CallFetchTAF
    \/ FetchTAFResponse
    \/ FetchTAFBody
    \/ CallFetchMultiple
    \/ FetchMultipleResponse
    \/ FetchMultipleBody
    \/ CallFetchMultipleTAF
    \/ FetchMultipleTAFResponse
    \/ FetchMultipleTAFBody
    \/ Return

SpecFetch == Init /\ [][NextFetch]_vars

-----------------------------------------------------------------------------
(* The CLI: one invocation runs in up to five steps: from the start to    *)
(* the METAR request, from the return of httpClient.Get to the read of    *)
(* the body, from the body to the TAF request, and the same two steps     *)
(* for the TAF response; what arrives is the API's choice.  The first     *)
(* request of http is that of FetchMultiple, the second that of           *)
(* FetchMultipleTAF.  output holds what the two streams have received so  *)
(* far, and the exit status once the process has ended.                   *)

CallMain ==
    /\ fn = "none"
    /\ \E args \in SeqsUpTo(MainCodes, MaxCodes),
          flagError \in FlagErrors,
          rawOutput \in BOOLEAN, allOutput \in BOOLEAN,
          showVersion \in BOOLEAN, tafOutput \in BOOLEAN :
        \E run \in {main_call(args, flagError, rawOutput, allOutput,
                              showVersion)} :
            /\ fn' = "main"
            /\ input' = [args |-> args, flagError |-> flagError,
                         rawOutput |-> rawOutput, allOutput |-> allOutput,
                         showVersion |-> showVersion, tafOutput |-> tafOutput]
            /\ output' = IF run.waiting = ""
                         THEN [exit |-> run.exit, stdout |-> run.stdout,
                               stderr |-> run.stderr]
                         ELSE [stdout |-> run.stdout, stderr |-> run.stderr]
            /\ sb' = ""
            /\ http' = run.requests
            /\ waiting' = run.waiting

MainMetarResponse ==
    /\ fn = "main"
    /\ waiting = "Get"
    /\ Len(http) = 1
    /\ \E head \in ResponseHeads :
        \E run \in {main_metar(input.args, input.rawOutput, input.allOutput,
                               input.tafOutput, head)} :
            /\ fn' = fn
            /\ input' = [args |-> input.args, flagError |-> input.flagError,
                         rawOutput |-> input.rawOutput,
                         allOutput |-> input.allOutput,
                         showVersion |-> input.showVersion,
                         tafOutput |-> input.tafOutput,
                         metarResp |-> head]
            /\ output' = IF run.waiting = ""
                         THEN [exit |-> run.exit, stdout |-> run.stdout,
                               stderr |-> run.stderr]
                         ELSE [stdout |-> run.stdout, stderr |-> run.stderr]
            /\ sb' = ""
            /\ http' = run.requests
            /\ waiting' = run.waiting

MainMetarBody ==
    /\ fn = "main"
    /\ waiting = "Body"
    /\ Len(http) = 1
    /\ \E body \in MainBodies(MainMetars) :
        \E run \in {main_metar(input.args, input.rawOutput, input.allOutput,
                               input.tafOutput,
                               Response(input.metarResp, body))} :
            /\ fn' = fn
            /\ input' = [args |-> input.args, flagError |-> input.flagError,
                         rawOutput |-> input.rawOutput,
                         allOutput |-> input.allOutput,
                         showVersion |-> input.showVersion,
                         tafOutput |-> input.tafOutput,
                         metarResp |-> Response(input.metarResp, body)]
            /\ output' = IF run.waiting = ""
                         THEN [exit |-> run.exit, stdout |-> run.stdout,
                               stderr |-> run.stderr]
                         ELSE [stdout |-> run.stdout, stderr |-> run.stderr]
            /\ sb' = ""
            /\ http' = run.requests
            /\ waiting' = run.waiting

MainTafResponse ==
    /\ fn = "main"
    /\ waiting = "Get"
    /\ Len(http) = 2
    /\ \E head \in ResponseHeads :
        \E run \in {main_taf(FetchMultipleTAF(input.args, head),
                             input.rawOutput, output.stdout, <<http[1]>>)} :
            /\ fn' = fn
            /\ input' = [args |-> input.args, flagError |-> input.flagError,
                         rawOutput |-> input.rawOutput,
                         allOutput |-> input.allOutput,
                         showVersion |-> input.showVersion,
                         tafOutput |-> input.tafOutput,
                         metarResp |-> input.metarResp,
                         tafResp |-> head]
            /\ output' = IF run.waiting = ""
                         THEN [exit |-> run.exit, stdout |-> run.stdout,
                               stderr |-> run.stderr]
                         ELSE [stdout |-> run.stdout, stderr |-> run.stderr]
            /\ sb' = ""
            /\ http' = run.requests
            /\ waiting' = run.waiting

MainTafBody ==
    /\ fn = "main"
    /\ waiting = "Body"
    /\ Len(http) = 2
    /\ \E body \in MainBodies(MainTafs) :
        \E run \in {main_taf(FetchMultipleTAF(input.args,
                                 Response(input.tafResp, body)),
                             input.rawOutput, output.stdout, <<http[1]>>)} :
            /\ fn' = fn
            /\ input' = [args |-> input.args, flagError |-> input.flagError,
                         rawOutput |-> input.rawOutput,
                         allOutput |-> input.allOutput,
                         showVersion |-> input.showVersion,
                         tafOutput |-> input.tafOutput,
                         metarResp |-> input.metarResp,
                         tafResp |-> Response(input.tafResp, body)]
            /\ output' = IF run.waiting = ""
                         THEN [exit |-> run.exit, stdout |-> run.stdout,
                               stderr |-> run.stderr]
                         ELSE [stdout |-> run.stdout, stderr |-> run.stderr]
            /\ sb' = ""
            /\ http' = run.requests
            /\ waiting' = run.waiting

NextMain ==
    \/ CallMain
    \/ MainMetarResponse
    \/ MainMetarBody
    \/ MainTafResponse
    \/ MainTafBody
    \/ Return

SpecMain == Init /\ [][NextMain]_vars

-----
(* Helpers of the properties *)

\* the whole numbers a float64 (in hundredths, >= 0) may be shown as when
\* it is rendered without decimals
WholeNumbersOf(x) ==
    IF x % 100 = 0 THEN {x \div 100} ELSE {x \div 100, (x \div 100) + 1}

\* the renderings of a wind without gust the dispatch on the direction allows
WindBaseRenderings(dir, speed) ==
    IF dir.type = "string" /\ dir.str = "VRB"
    THEN {"Variable at " \o FmtInt(speed) \o " kt"}
    ELSE IF dir.type = "float64"
    THEN { FmtInt(n) \o DegreeSign \o " at " \o FmtInt(speed) \o " kt" :
               n \in WholeNumbersOf(dir.num) }
    ELSE IF dir.type = "string"
    THEN {dir.str \o DegreeSign \o " at " \o FmtInt(speed) \o " kt"}
    ELSE {FmtInt(speed) \o " kt"}

-----------------------------------------------------------------------------
(* Properties of formatWind *)

\* C1: formatWind(direction, 0, gust) is "Calm" for every direction variant
\* and every gust, a gust above 0 included.
C1_CalmAtZeroSpeed ==
    (fn = "formatWind" /\ input.speed = 0) => output = "Calm"

C1_Witness ==
    /\ fn = "formatWind"
    /\ input.speed = 0
    /\ input.gust > 0
    /\ input.dir = AnyString("VRB")
    /\ output = "Calm"

\* C2 as claimed: for every direction and every speed, a gust above 0 makes
\* the result end with ", gusting {gust} kt", and a gust of 0 or less leaves
\* no "gusting" in it.
C2_GustSuffixAtEverySpeed ==
    fn = "formatWind" =>
        /\ input.gust > 0 =>
               HasSuffix(output, ", gusting " \o FmtInt(input.gust) \o " kt")
        /\ input.gust <= 0 => ~Contains(output, "gusting")

\* C2 amended: for every direction and every speed other than 0, a gust
\* above 0 makes the result the base rendering followed by
\* ", gusting {gust} kt", and a gust of 0 or less leaves no "gusting" in it;
\* at speed 0 the result is "Calm" and carries no gust suffix.
C2_GustSuffixWhenNotCalm ==
    fn = "formatWind" =>
        /\ (input.speed # 0 /\ input.gust > 0) =>
               \E base \in WindBaseRenderings(input.dir, input.speed) :
                   output = base \o ", gusting " \o FmtInt(input.gust) \o " kt"
        /\ (input.speed = 0 \/ input.gust <= 0) => ~Contains(output, "gusting")

C2_Witness ==
    /\ fn = "formatWind"
    /\ input.dir = AnyFloat(18000)
    /\ input.speed = 15
    /\ input.gust = 25
    /\ output = "180" \o DegreeSign \o " at 15 kt, gusting 25 kt"

\* C3: for a speed other than 0 and a gust of 0, "VRB" gives
\* "Variable at {speed} kt", a number gives "{direction}(degree) at {speed} kt"
\* without decimals, any other text gives "{text}(degree) at {speed} kt"
\* verbatim, and an absent direction or one of another type gives "{speed} kt".
C3_DirectionDispatch ==
    (fn = "formatWind" /\ input.speed # 0 /\ input.gust = 0) =>
        /\ output \in WindBaseRenderings(input.dir, input.speed)
        /\ ~Contains(output, ".")

C3_Witness ==
    /\ fn = "formatWind"
    /\ input.dir = AnyString("vrb")
    /\ input.speed = 10
    /\ input.gust = 0
    /\ output = "vrb" \o DegreeSign \o " at 10 kt"

-----------------------------------------------------------------------------
(* Properties of formatVisibility *)

\* C4 as claimed: a number of 10 or more gives "10+ SM"; a number below 10
\* gives "{v} SM" without decimals, and the number shown is never 10 or more.
C4_NumericVisibility ==
    (fn = "formatVisibility" /\ input.vis.type = "float64") =>
        IF input.vis.num >= 1000
        THEN output = "10+ SM"
        ELSE \E n \in WholeNumbersOf(input.vis.num) :
                 /\ n < 10
                 /\ output = FmtInt(n) \o " SM"

\* C5: a text s gives s followed by " SM", s unchanged ("10+" included); an
\* absent value or one that is neither text nor number gives "Unknown";
\* every input has a result.
C5_VisibilityFallback ==
    fn = "formatVisibility" =>
        /\ input.vis.type = "string" => output = input.vis.str \o " SM"
        /\ input.vis.type \notin {"string", "float64"} => output = "Unknown"
        /\ output # ""

C5_Witness ==
    /\ fn = "formatVisibility"
    /\ input.vis = AnyString("15")
    /\ output = "15 SM"

-----------------------------------------------------------------------------
(* Properties of expandCloudCover and formatClouds *)

\* C6: expandCloudCover maps SKC and CLR to Clear, FEW to Few, SCT to
\* Scattered, BKN to Broken, OVC to Overcast, OVX to Obscured, and returns
\* every other string (the empty one and lower-case ones included) unchanged.
C6_CoverTable ==
    fn = "expandCloudCover" =>
        output = CASE input.cover = "SKC" -> "Clear"
                   [] input.cover = "CLR" -> "Clear"
                   [] input.cover = "FEW" -> "Few"
                   [] input.cover = "SCT" -> "Scattered"
                   [] input.cover = "BKN" -> "Broken"
                   [] input.cover = "OVC" -> "Overcast"
                   [] input.cover = "OVX" -> "Obscured"
                   [] OTHER -> input.cover

C6_Witness ==
    /\ fn = "expandCloudCover"
    /\ input.cover = "few"
    /\ output = "few"

\* C7: formatClouds returns one description per layer, in the input order
\* and joined by ", ": the expanded cover followed by " @ {base} ft" when the
\* base is above 0 and the expanded cover alone otherwise; no layer gives "".
C7_OneDescriptionPerLayer ==
    fn = "formatClouds" =>
        LET clouds == input.clouds
            pieces == SplitOn(output, ", ")
        IN  IF Len(clouds) = 0 THEN output = ""
            ELSE /\ Len(pieces) = Len(clouds)
                 /\ \A i \in 1..Len(clouds) :
                        pieces[i] =
                            IF clouds[i].Base > 0
                            THEN expandCloudCover(clouds[i].Cover) \o " @ "
                                     \o FmtInt(clouds[i].Base) \o " ft"
                            ELSE expandCloudCover(clouds[i].Cover)

C7_Witness ==
    /\ fn = "formatClouds"
    /\ input.clouds = << [Cover |-> "SCT", Base |-> 2500],
                         [Cover |-> "BKN", Base |-> 0] >>
    /\ output = "Scattered @ 2500 ft, Broken"


-----------------------------------------------------------------------------
(* Properties of decodeWeatherGroup and decodeWeather *)

\* the description of a 2-character chunk
ChunkText(code) == IF code \in DOMAIN weatherMap THEN weatherMap[code] ELSE code

\* the left-to-right tokenization of a group: sign, "VC", 2-character
\* chunks, one leftover character; a character is a rune
GroupTokens(group) ==
    LET rs == Runes(group)
        sign == IF Len(rs) >= 1 /\ rs[1] = "-" THEN <<"Light">>
                ELSE IF Len(rs) >= 1 /\ rs[1] = "+" THEN <<"Heavy">>
                ELSE <<>>
        afterSign == Len(sign)
        vicinity == IF /\ Len(rs) >= afterSign + 2
                       /\ rs[afterSign + 1] = "V"
                       /\ rs[afterSign + 2] = "C"
                    THEN <<"Vicinity">> ELSE <<>>
        start == afterSign + 2 * Len(vicinity)
        rest == Len(rs) - start
        chunks == [k \in 1..(rest \div 2) |->
                      ChunkText(rs[start + 2 * k - 1] \o rs[start + 2 * k])]
        leftover == IF rest % 2 = 1 THEN <<rs[Len(rs)]>> ELSE <<>>
    IN  sign \o vicinity \o chunks \o leftover

\* C8: decodeWeatherGroup returns the parts of the left-to-right
\* tokenization of the group joined by single spaces: "Light" or "Heavy" for
\* a leading sign, "Vicinity" for a following "VC", the table description of
\* each 2-character chunk or the chunk itself, one leftover character
\* verbatim; "-RA" is "Light Rain", "TSRA" is "Thunderstorm Rain", "VCSH" is
\* "Vicinity Showers".
C8_GroupTokenization ==
    fn = "decodeWeatherGroup" =>
        LET tokens == GroupTokens(input.group)
        IN  /\ output = Join(tokens, " ")
            /\ input.group = "-RA" => output = "Light Rain"
            /\ input.group = "TSRA" => output = "Thunderstorm Rain"
            /\ input.group = "VCSH" => output = "Vicinity Showers"

\* C9: decodeWeather gives one result per white-space separated group, in
\* the input order and joined by ", ", each the result of decodeWeatherGroup
\* on that group; an empty or all-white-space input gives "".
C9_OneResultPerGroup ==
    fn = "decodeWeather" =>
        LET groups == input.groups
        IN  IF Len(groups) = 0 THEN output = ""
            ELSE SplitOn(output, ", ") =
                     [i \in 1..Len(groups) |-> decodeWeatherGroup(groups[i])]

C9_Witness ==
    /\ fn = "decodeWeather"
    /\ input.wxString = " -RA  BR"
    /\ output = "Light Rain, Mist"

-----------------------------------------------------------------------------
(* Properties of Decode *)

\* C10: the text Decode builds inside the box is, in this order, the station
\* header, Time (present only when the observation epoch is not 0), Flight,
\* Wind, Visibility, Temp, Altimeter, Clouds; every line before Clouds ends
\* with one newline, Clouds is last and has no newline after it, and no field
\* other than Time is omitted.
C10_DecodeLineOrder ==
    fn = "Decode" =>
        LET lines == SplitOn(sb, "\n")
            hasTime == Len(lines) = 8
            fields == (IF hasTime THEN <<"Time">> ELSE <<>>) \o
                      <<"Flight", "Wind", "Visibility", "Temp", "Altimeter",
                        "Clouds">>
        IN  /\ Len(lines) \in {7, 8}
            /\ hasTime => input.m.ObsTime # 0
            /\ HasPrefix(lines[1], input.m.StationID)
            /\ \A i \in 1..Len(fields) :
                   /\ HasPrefix(lines[i + 1], PadRight(fields[i], 11))
                   /\ \A j \in 1..Len(fields) :
                          j # i => ~HasPrefix(lines[i + 1], fields[j])
            /\ ~HasSuffix(sb, "\n")

C10_Witness ==
    /\ fn = "Decode"
    /\ input.m.ObsTime = 1704200000
    /\ input.m.Name = ""
    /\ input.m.Clouds = <<>>
    /\ input.m.FlightRules = "VFR"
    /\ input.m.WindSpeed = 0
    /\ input.m.Visibility = AnyFloat(1000)
    /\ input.m.Temp = 1500
    /\ input.m.Altimeter = 101325
    /\ sb = "KJFK\n"
            \o "Time       02 Jan 2024 12:53 UTC\n"
            \o "Flight     VFR\n"
            \o "Wind       Calm\n"
            \o "Visibility 10+ SM\n"
            \o "Temp       15" \o DegreeSign \o "C (Dewpoint: 10" \o DegreeSign \o "C)\n"
            \o "Altimeter  29.92 inHg / 1013 hPa\n"
            \o "Clouds     Clear"

\* the value of the Clouds line: the last line of the text without its label
CloudsLineValue(text) ==
    LET lines == SplitOn(text, "\n")
    IN  SliceFrom(lines[Len(lines)], 11)

\* C11 as claimed: the value of the Clouds line is the literal "Clear"
\* exactly when the record has no cloud layer, and formatClouds(layers)
\* otherwise.
C11_ClearExactlyWhenNoLayer ==
    fn = "Decode" =>
        /\ (CloudsLineValue(sb) = "Clear") <=> (Len(input.m.Clouds) = 0)
        /\ Len(input.m.Clouds) > 0 =>
               CloudsLineValue(sb) = formatClouds(input.m.Clouds)

\* C11 amended: the value of the Clouds line is the literal "Clear" when the
\* record has no cloud layer, and formatClouds(layers) otherwise (which is
\* itself "Clear" for a single SKC or CLR layer without base).
C11_ClearWhenNoLayer ==
    fn = "Decode" =>
        CloudsLineValue(sb) =
            IF Len(input.m.Clouds) = 0 THEN "Clear"
            ELSE formatClouds(input.m.Clouds)

C11_Witness ==
    /\ fn = "Decode"
    /\ input.m.Clouds = <<>>
    /\ input.m.ObsTime = 0
    /\ CloudsLineValue(sb) = "Clear"
    /\ HasSuffix(sb, "\nClouds     Clear")

\* the whole numbers a temperature (in hundredths) may be shown as
WholeDegrees(x) ==
    IF x >= 0 THEN WholeNumbersOf(x) ELSE { -n : n \in WholeNumbersOf(-x) }

\* C12: the output of Decode contains the station id, the name when it is
\* not empty, the flight category, formatWind(direction, speed, gust),
\* formatVisibility(visibility), the whole-degree temperature and dewpoint
\* each followed by the degree sign and "C", and formatClouds(layers) when
\* there is a layer.
C12_DecodeContainsFields ==
    fn = "Decode" =>
        LET m == input.m
        IN  /\ Contains(output, m.StationID)
            /\ m.Name # "" => Contains(output, m.Name)
            /\ Contains(output, m.FlightRules)
            /\ Contains(output, formatWind(m.Wind, m.WindSpeed, m.WindGust))
            /\ Contains(output, formatVisibility(m.Visibility))
            /\ \E n \in WholeDegrees(m.Temp) :
                   Contains(output, FmtInt(n) \o DegreeSign \o "C")
            /\ \E n \in WholeDegrees(m.Dewpoint) :
                   Contains(output, FmtInt(n) \o DegreeSign \o "C)")
            /\ Len(m.Clouds) > 0 => Contains(output, formatClouds(m.Clouds))

C12_Witness ==
    /\ fn = "Decode"
    /\ input.m.Name = "John F Kennedy International"
    /\ input.m.Wind = AnyFloat(27000)
    /\ input.m.WindSpeed = 10
    /\ input.m.WindGust = 0
    /\ input.m.Clouds = << [Cover |-> "FEW", Base |-> 5000] >>
    /\ Contains(output, "KJFK " \o MiddleDot \o " John F Kennedy International")
    /\ Contains(output, "270" \o DegreeSign \o " at 10 kt")
    /\ Contains(output, "Few @ 5000 ft")
    /\ HasPrefix(output, BorderTopLeft)

-----------------------------------------------------------------------------
(* Properties of formatTAFForecast and DecodeTAF *)

\* the lines of a text: the text split on newline, without the empty piece
\* that follows a final newline
BlockLines(text) ==
    LET pieces == SplitOn(text, "\n")
    IN  IF pieces[Len(pieces)] = "" THEN SubSeq(pieces, 1, Len(pieces) - 1)
        ELSE pieces

\* the label of a detail line, "" when the line is none
DetailLabel(line) ==
    IF HasPrefix(line, "  Wind     ") THEN "Wind"
    ELSE IF HasPrefix(line, "  Visib    ") THEN "Visib"
    ELSE IF HasPrefix(line, "  Weather  ") THEN "Weather"
    ELSE IF HasPrefix(line, "  Clouds   ") THEN "Clouds"
    ELSE ""

DetailRank(label) ==
    CASE label = "Wind" -> 1
      [] label = "Visib" -> 2
      [] label = "Weather" -> 3
      [] label = "Clouds" -> 4
      [] OTHER -> 0

\* C13: in a period block the lines after the header are detail lines in the
\* order Wind, Visib, Weather, Clouds; Wind is there iff the wind speed is
\* above 0, Visib iff the visibility is present and not the empty string,
\* Clouds iff there is a layer; an omitted line leaves nothing behind.
C13_DetailLines ==
    fn = "formatTAFForecast" =>
        LET f == input.f
            lines == BlockLines(output)
            first == IF input.isFirst THEN 2 ELSE 3
            labels == [i \in 1..(Len(lines) - first + 1) |->
                          DetailLabel(lines[i + first - 1])]
            has(l) == \E i \in 1..Len(labels) : labels[i] = l
        IN  /\ Len(lines) >= first - 1
            /\ \A i \in 1..Len(labels) : labels[i] # ""
            /\ \A i, j \in 1..Len(labels) :
                   i < j => DetailRank(labels[i]) < DetailRank(labels[j])
            /\ has("Wind") <=> f.WindSpeed > 0
            /\ has("Visib") <=>
                   (f.Visibility # AnyNil /\ f.Visibility # AnyString(""))
            /\ has("Clouds") <=> Len(f.Clouds) > 0

C13_Witness ==
    /\ fn = "formatTAFForecast"
    /\ input.isFirst
    /\ ~input.isLast
    /\ input.f.FcstChange = "TEMPO"
    /\ input.f.WindSpeed = 0
    /\ input.f.Visibility = AnyFloat(300)
    /\ input.f.Weather = ""
    /\ Len(input.f.Clouds) = 1
    /\ output = "Tempo Tue 18:00 - Wed 00:00\n"
                \o "  Visib    3 SM\n"
                \o "  Clouds   Overcast @ 1500 ft\n"

\* C14: the block of a period ends with a newline exactly when the period is
\* not the last one, whichever detail lines it has.
C14_NewlineUnlessLast ==
    fn = "formatTAFForecast" =>
        (HasSuffix(output, "\n") <=> ~input.isLast)

C14_Witness ==
    /\ fn = "formatTAFForecast"
    /\ input.isLast
    /\ input.isFirst
    /\ input.f.FcstChange = "FM"
    /\ input.f.WindSpeed = 0
    /\ input.f.Visibility = AnyNil
    /\ input.f.Weather = ""
    /\ input.f.Clouds = <<>>
    /\ output = "From  Tue 18:00 - Wed 00:00"

\* C15: the text that Decode or DecodeTAF hands to the box renderer does not
\* end with a newline, for a TAF record without forecast periods too.
C15_NoTrailingNewline ==
    fn \in {"Decode", "DecodeTAF"} => ~HasSuffix(sb, "\n")

\* the prefix word that the change indicator of a period stands for
PrefixWord(f) ==
    CASE f.FcstChange = "FM" -> "From"
      [] f.FcstChange = "TEMPO" -> "Tempo"
      [] f.FcstChange = "BECMG" -> "Becmg"
      [] f.FcstChange = "PROB" /\ ~f.Probability.nil ->
             "Prob" \o FmtInt(f.Probability.val)
      [] f.FcstChange = "PROB" /\ f.Probability.nil -> "Prob"
      [] OTHER -> "Init"

IsSeparator(line) == line = Repeat(BorderHorizontal, SeparatorWidth)

\* the positions from..Len(lines) of the lines that satisfy neither
\* IsSeparator nor DetailLabel, in increasing order
RECURSIVE HeaderPositions(_, _)
HeaderPositions(lines, from) ==
    IF from > Len(lines) THEN <<>>
    ELSE (IF ~IsSeparator(lines[from]) /\ DetailLabel(lines[from]) = ""
          THEN <<from>> ELSE <<>>)
             \o HeaderPositions(lines, from + 1)

\* C16: DecodeTAF emits the station header, the "TAF FORECAST" label, the
\* Valid line unless a validity bound is 0, then the n period blocks in
\* record order with exactly max(0, n-1) separators, one immediately before
\* each period but the first.
C16_TAFLayout ==
    fn = "DecodeTAF" =>
        LET t == input.t
            n == Len(t.Forecasts)
            lines == BlockLines(sb)
            valid == t.ValidTimeFrom # 0 /\ t.ValidTimeTo # 0
            body == IF valid THEN 4 ELSE 3
            headers == HeaderPositions(lines, body)
            separators == { i \in 1..Len(lines) : IsSeparator(lines[i]) }
        IN  /\ Len(lines) >= body - 1
            /\ lines[1] = t.StationID
                   \o (IF t.Name # "" THEN " " \o MiddleDot \o " " \o t.Name
                       ELSE "")
            /\ lines[2] = "TAF FORECAST"
            /\ valid => lines[3] = "Valid      02 Jan 18:00 to 03 Jan 00:00 UTC"
            /\ \A i \in 1..Len(lines) : HasPrefix(lines[i], "Valid") => valid /\ i = 3
            /\ Len(headers) = n
            /\ \A j \in 1..n :
                   HasPrefix(lines[headers[j]], PrefixWord(t.Forecasts[j]))
            /\ Cardinality(separators) = (IF n > 0 THEN n - 1 ELSE 0)
            /\ \A j \in 2..n : (headers[j] - 1) \in separators
            /\ n > 0 => headers[1] = body

C16_Witness ==
    /\ fn = "DecodeTAF"
    /\ Len(input.t.Forecasts) = 3
    /\ input.t.ValidTimeFrom > 0
    /\ input.t.ValidTimeTo > 0
    /\ input.t.Forecasts[1].FcstChange = ""
    /\ input.t.Forecasts[2].FcstChange = "PROB"
    /\ input.t.Forecasts[3].FcstChange = "FM"
    /\ Cardinality({ i \in 1..Len(BlockLines(sb)) :
                        IsSeparator(BlockLines(sb)[i]) }) = 2

RECURSIVE TrimRightSpaces(_)
TrimRightSpaces(str) ==
    IF str # "" /\ HasSuffix(str, " ")
    THEN TrimRightSpaces(SubSeq(str, 1, Len(str) - 1))
    ELSE str

\* C17: the prefix of the header of a period is From for FM, Tempo for
\* TEMPO, Becmg for BECMG, Prob{N} for PROB with a probability N and Prob
\* without one, Init for any other indicator; a probability on a non-PROB
\* period is ignored.
C17_HeaderPrefix ==
    fn = "formatTAFForecast" =>
        LET lines == BlockLines(output)
            header == lines[IF input.isFirst THEN 1 ELSE 2]
            times == "Tue 18:00 - Wed 00:00"
        IN  /\ HasSuffix(header, times)
            /\ TrimRightSpaces(SubSeq(header, 1, Len(header) - Len(times)))
                   = PrefixWord(input.f)

C17_Witness ==
    /\ fn = "formatTAFForecast"
    /\ input.f.FcstChange = "TEMPO"
    /\ input.f.Probability = PtrTo(30)
    /\ input.isFirst
    /\ HasPrefix(output, "Tempo Tue 18:00 - Wed 00:00")

-----------------------------------------------------------------------------
(* Properties of ValidateICAO and the fetch functions *)

\* a code of exactly 4 characters, each a letter or a digit
IsValidCode(icao) ==
    /\ Len(Runes(icao)) = 4
    /\ \A i \in 1..Len(Runes(icao)) :
           IsLetter(Runes(icao)[i]) \/ IsDigit(Runes(icao)[i])

\* C19: ValidateICAO accepts a code exactly when it has exactly 4 characters
\* that are all letters or digits; it then returns the upper-cased code and
\* no error, and otherwise the empty string and an error; for codes with
\* letters outside ASCII too.
C19_ValidateICAO ==
    fn = "ValidateICAO" =>
        IF IsValidCode(input.icao)
        THEN output = [code |-> ToUpper(input.icao), err |-> ""]
        ELSE output.code = "" /\ output.err # ""

\* the position of the first code of the list that is not valid, 0 if none
FirstInvalid(icaos) ==
    IF \A i \in 1..Len(icaos) : IsValidCode(icaos[i]) THEN 0
    ELSE CHOOSE i \in 1..Len(icaos) :
             /\ ~IsValidCode(icaos[i])
             /\ \A j \in 1..(i - 1) : IsValidCode(icaos[j])

\* C20: in the four fetch functions an invalid code, an empty list (error
\* "no ICAO codes provided") or a list with an invalid code gives an error,
\* that of the first invalid code of the list, and no HTTP request.
C20_ValidationBeforeNetwork ==
    /\ (fn \in {"Fetch", "FetchTAF"} /\ waiting = ""
            /\ ~IsValidCode(input.icao)) =>
           (output.err # "" /\ http = <<>>)
    /\ (fn \in {"FetchMultiple", "FetchMultipleTAF"} /\ waiting = ""
            /\ input.icaos = <<>>) =>
           (output.err = "no ICAO codes provided" /\ http = <<>>)
    /\ (fn \in {"FetchMultiple", "FetchMultipleTAF"} /\ waiting = ""
            /\ FirstInvalid(input.icaos) # 0) =>
           /\ output.err # ""
           /\ output.err
                  = ValidateICAO(input.icaos[FirstInvalid(input.icaos)]).err
           /\ http = <<>>

FetchFunctions == {"Fetch", "FetchTAF", "FetchMultiple", "FetchMultipleTAF"}

\* C21: a fetch function returns either a non-empty result and no error, or
\* no result and an error; a response of zero records is an error.
C21_ResultOrError ==
    (fn \in FetchFunctions /\ waiting = "") =>
        \/ output.err = "" /\ output.val # <<>>
        \/ output.err # "" /\ output.val = <<>>

C21_Witness ==
    /\ fn = "FetchMultiple"
    /\ waiting = ""
    /\ Len(input.icaos) = 2
    /\ Len(http) = 1
    /\ output.val = <<>>
    /\ output.err = "no METAR data found for the requested airports"

\* the codes are valid and pairwise distinct once upper-cased
DistinctValidCodes(icaos) ==
    /\ \A i \in 1..Len(icaos) : IsValidCode(icaos[i])
    /\ \A i, j \in 1..Len(icaos) :
           i # j => ToUpper(icaos[i]) # ToUpper(icaos[j])

\* C22: a successful FetchMultiple or FetchMultipleTAF for n distinct valid
\* codes returns exactly n records, one for each requested station, whatever
\* records the API answered with.
C22_OneRecordPerStation ==
    (/\ fn \in {"FetchMultiple", "FetchMultipleTAF"}
     /\ waiting = ""
     /\ output.err = ""
     /\ DistinctValidCodes(input.icaos)) =>
        /\ Len(output.val) = Len(input.icaos)
        /\ \A i \in 1..Len(input.icaos) :
               \E k \in 1..Len(output.val) :
                   output.val[k].StationID = ToUpper(input.icaos[i])

-----------------------------------------------------------------------------
(* Properties of the CLI *)

\* no code, or a code that is not valid
CodesRejected(args) ==
    Len(args) = 0 \/ \E i \in 1..Len(args) : ~IsValidCode(args[i])

\* the response makes a fetch fail: a transport error, a status other than
\* 200, an undecodable body, no record
ResponseFails(resp) ==
    \/ resp.transport # ""
    \/ resp.status # 200
    \/ resp.parse # ""
    \/ Len(resp.data) = 0

\* the command has ended after getting as far as the METAR fetch
ReachesMetarFetch ==
    /\ waiting = ""
    /\ input.flagError = ""
    /\ ~input.showVersion
    /\ Len(input.args) >= 1
    /\ ~(input.rawOutput /\ input.allOutput)

\* the METAR fetch failed, before the request or on the response
MetarFetchFails ==
    /\ ReachesMetarFetch
    /\ (CodesRejected(input.args) \/ ResponseFails(input.metarResp))

\* the command has ended after getting as far as the TAF fetch
ReachesTafFetch ==
    /\ ReachesMetarFetch
    /\ ~MetarFetchFails
    /\ input.tafOutput

\* C23: a failure of the METAR fetch or of the TAF fetch ends the process
\* with a non-zero exit status; a run that exits with 0 had no fetch failure.
C23_FetchFailureExitsNonZero ==
    (fn = "main" /\ waiting = "") =>
        ((\/ MetarFetchFails
          \/ ReachesTafFetch /\ ResponseFails(input.tafResp))
             => output.exit # 0)

C23_Witness ==
    /\ fn = "main"
    /\ ReachesTafFetch
    /\ input.tafResp.status = 500
    /\ Len(input.args) = 2
    /\ Len(http) = 2
    /\ output.exit = 1
    /\ output.stderr = "Error fetching TAF: API returned status 500\n"
    /\ output.stdout # ""

\* C24: an invocation of the CLI issues at most one HTTP request, whatever
\* the flags and the station arguments.
C24_AtMostOneRequest ==
    fn = "main" => Len(http) <= 1

-----------------------------------------------------------------------------
(* Properties across the formatter *)

\* the text is a decimal numeral
IsNumeral(str) ==
    /\ str # ""
    /\ \A i \in 1..Len(str) : Contains(DecimalDigits, SubSeq(str, i, i))

\* the number that a decimal numeral denotes
RECURSIVE NumeralValue(_)
NumeralValue(str) ==
    IF str = "" THEN 0
    ELSE 10 * NumeralValue(SubSeq(str, 1, Len(str) - 1))
             + (CHOOSE d \in 0..9 :
                    SubSeq(DecimalDigits, d + 1, d + 1)
                        = SubSeq(str, Len(str), Len(str)))

\* the visibility denotes 10 statute miles or more: as a number, as the text
\* "10+", or as the text of a number
DenotesTenOrMore(vis) ==
    \/ vis.type = "float64" /\ vis.num >= 1000
    \/ vis.type = "string" /\ vis.str = "10+"
    \/ vis.type = "string" /\ IsNumeral(vis.str) /\ NumeralValue(vis.str) >= 10

\* C25: a visibility that denotes 10 statute miles or more is displayed as
\* "10+ SM", whatever its representation, by formatVisibility, in the
\* Visibility line of a METAR and in the Visib line of a TAF period.
C25_VisibilityCeiling ==
    /\ (fn = "formatVisibility" /\ DenotesTenOrMore(input.vis)) =>
           output = "10+ SM"
    /\ (fn = "Decode" /\ DenotesTenOrMore(input.m.Visibility)) =>
           Contains(sb, "Visibility 10+ SM\n")
    /\ (fn = "formatTAFForecast" /\ DenotesTenOrMore(input.f.Visibility)) =>
           Contains(output, "  Visib    10+ SM")

\* the tokenization of a group with the sign and "VC" as alternatives: a sign
\* or else a leading "VC", then 2-character chunks among which "VC" is kept
\* as it is, then one leftover character
AlternativePrefixTokens(group) ==
    LET rs == Runes(group)
        sign == IF Len(rs) >= 1 /\ rs[1] = "-" THEN <<"Light">>
                ELSE IF Len(rs) >= 1 /\ rs[1] = "+" THEN <<"Heavy">>
                ELSE <<>>
        vicinity == IF sign = <<>> /\ HasPrefix(group, "VC")
                    THEN <<"Vicinity">> ELSE <<>>
        start == Len(sign) + 2 * Len(vicinity)
        rest == Len(rs) - start
        chunks == [k \in 1..(rest \div 2) |->
                      LET code == rs[start + 2 * k - 1] \o rs[start + 2 * k]
                      IN  IF code = "VC" THEN code ELSE ChunkText(code)]
        leftover == IF rest % 2 = 1 THEN <<rs[Len(rs)]>> ELSE <<>>
    IN  sign \o vicinity \o chunks \o leftover

\* C26: in decodeWeatherGroup the intensity sign and the vicinity prefix are
\* alternatives: "Vicinity" stands only for a "VC" at the very start of a
\* group without sign; a "VC" after a sign or at a later chunk position is an
\* ordinary chunk and stays "VC".
C26_VicinityOnlyAtStart ==
    fn = "decodeWeatherGroup" =>
        /\ output = Join(AlternativePrefixTokens(input.group), " ")
        /\ Contains(output, "Vicinity") => HasPrefix(input.group, "VC")

\* C27: in a TAF period block a Weather line is emitted only if the decoded
\* weather text is not empty: a Weather line never has an empty value, even
\* for a raw weather string of white space only.
C27_WeatherLineNotEmpty ==
    fn = "formatTAFForecast" =>
        LET lines == BlockLines(output)
        IN  \A i \in 1..Len(lines) :
                DetailLabel(lines[i]) = "Weather" =>
                    TrimRightSpaces(lines[i]) # "  Weather"

\* C29: in a TAF period header the prefix is separated from the from-time
\* by at least one space: the header is the prefix, one space or more, and
\* "{Weekday} {HH:MM} - {Weekday} {HH:MM}".
C29_PrefixSeparatedFromTime ==
    fn = "formatTAFForecast" =>
        LET lines == BlockLines(output)
            header == lines[IF input.isFirst THEN 1 ELSE 2]
            times == " Tue 18:00 - Wed 00:00"
        IN  /\ HasSuffix(header, times)
            /\ TrimRightSpaces(SubSeq(header, 1, Len(header) - Len(times)))
                   = PrefixWord(input.f)

-----------------------------------------------------------------------------
(* Properties of the errors of the fetch functions *)

\* the codes of the call under way
CodesOfCall ==
    IF fn \in {"Fetch", "FetchTAF"} THEN <<input.icao>> ELSE input.icaos

\* the validation step rejects the code: its upper-cased form is not 4 bytes
\* long or has a character that is neither letter nor digit
StepRejects(icao) ==
    ByteLen(ToUpper(icao)) # 4 \/ ~isAlphanumeric(ToUpper(icao))

\* the first step of the call that fails, in the order validation,
\* transport, status, decoding, records
FirstFailingStep ==
    IF CodesOfCall = <<>> \/ \E i \in 1..Len(CodesOfCall) :
                                 StepRejects(CodesOfCall[i])
    THEN "bad input"
    ELSE IF input.resp.transport # "" THEN "transport failure"
    ELSE IF input.resp.status # 200 THEN "status"
    ELSE IF input.resp.parse # "" THEN "decode failure"
    ELSE IF Len(input.resp.data) = 0 THEN "no data found"
    ELSE "none"

\* the classes that an error message can be read as
ErrorClasses(err) ==
    { c \in {"bad input", "transport failure", "status", "decode failure",
             "no data found"} :
        \/ c = "bad input" /\ (\/ HasPrefix(err, "invalid ICAO code")
                               \/ err = "no ICAO codes provided")
        \/ c = "transport failure" /\ HasPrefix(err, "failed to fetch ")
        \/ c = "status" /\ HasPrefix(err, "API returned status ")
        \/ c = "decode failure" /\ HasPrefix(err, "failed to parse response: ")
        \/ c = "no data found" /\ (\/ HasPrefix(err, "no METAR ")
                                   \/ HasPrefix(err, "no TAF ")) }

\* C28: an error of a fetch function belongs to exactly one class, that of
\* the first failing step in the order validation, transport, status,
\* decoding, zero records; the classes are told apart by the message and a
\* later step is never reported when an earlier one fails.
C28_ErrorClassOfFirstFailure ==
    (fn \in FetchFunctions /\ waiting = "") =>
        /\ output.err = "" <=> FirstFailingStep = "none"
        /\ output.err # "" => ErrorClasses(output.err) = {FirstFailingStep}

C28_Witness ==
    /\ fn = "FetchTAF"
    /\ waiting = ""
    /\ input.icao = "kjfk"
    /\ input.resp.status = 500
    /\ output.err = "API returned status 500"
    /\ Len(http) = 1

\* the kind of failure that a validation message reports
FailureKind(err) ==
    IF err = "" THEN "accepted"
    ELSE IF Contains(err, "must be 4 characters") THEN "wrong length"
    ELSE IF Contains(err, "must contain only letters and numbers")
    THEN "non-alphanumeric"
    ELSE "other"

\* C30: the validation inlined in Fetch and ValidateICAO accept the same
\* codes and report the same kind of failure for a rejected code, the wrong
\* length before the non-alphanumeric character when both checks fail.
C30_SameValidation ==
    /\ fn = "Fetch" =>
           /\ http # <<>> <=> ValidateICAO(input.icao).err = ""
           /\ http = <<>> =>
                  /\ FailureKind(output.err)
                         = FailureKind(ValidateICAO(input.icao).err)
                  /\ FailureKind(output.err)
                         \in {"wrong length", "non-alphanumeric"}
                  /\ ByteLen(ToUpper(input.icao)) # 4 =>
                         FailureKind(output.err) = "wrong length"
    /\ fn = "ValidateICAO" =>
           /\ FailureKind(output.err)
                  = FailureKind(Fetch_validate(input.icao))
           /\ FailureKind(output.err) # "other"
           /\ ByteLen(ToUpper(input.icao)) # 4 =>
                  FailureKind(output.err) = "wrong length"

C30_Witness ==
    /\ fn = "Fetch"
    /\ input.icao = "k-"
    /\ http = <<>>
    /\ output.err = "invalid ICAO code: must be 4 characters (e.g., KJFK)"
    /\ ValidateICAO(input.icao).err
           = "invalid ICAO code \"K-\": must be 4 characters"

====
